---- MODULE Spec2Model ----
(***************************************************************************)
(* The review scripts of aws-runner as state machines.                     *)
(*                                                                         *)
(* One run of one script is one behaviour: `script` says which script      *)
(* runs, `inventory` is what the Inventory Source and the Telemetry Source *)
(* will answer during the run (drawn in the initial state), and the other  *)
(* variables are the locals of the script's main loop.                     *)
(*                                                                         *)
(* Numbers.  Python floats are modelled by exact rationals [n, d] (d > 0); *)
(* comparisons are cross-multiplied.  A list of datapoints is kept         *)
(* run-length encoded: <<[v |-> value, c |-> count], ...>> stands for the  *)
(* list holding `c` copies of each `v`; sum, max and the sorted order do   *)
(* not depend on the order of the list.                                    *)
(***************************************************************************)
EXTENDS Integers, Sequences, FiniteSets, TLC

VARIABLES
    script,     \* which script this run executes
    args,       \* its --days / --period options
    eff_period, \* the period main hands to collect_profile
    requests,   \* the [seconds, Period] of the calls sent to the Telemetry Source
    inventory,  \* answers of the Inventory / Telemetry Source for this run
    r,          \* index of the region (partition) the main loop is at
    t,          \* index of the resource inside the region
    rows,       \* rows collected for the current region (collect_region)
    all_rows,   \* rows collected by main so far
    nat_rows_all, \* ec2_utilization: the NAT Gateway rows collected so far
    csv,        \* what write_csv has written (<<>> before the write)
    stderr,     \* the skips that were logged
    pc          \* position of the run

vars ==
    <<script, args, eff_period, requests, inventory, r, t, rows, all_rows,
      nat_rows_all, csv, stderr, pc>>

\* what a run is given: the script, its options and the sources' answers
given == <<script, args, inventory>>

---------------------------------------------------------------------------
(* Exact rationals standing for Python floats *)

Rat(n, d) == [n |-> n, d |-> d]

RInt(i) == Rat(i, 1)

RLe(a, b) == a.n * b.d <= b.n * a.d

RLt(a, b) == a.n * b.d < b.n * a.d

REq(a, b) == a.n * b.d = b.n * a.d

RAdd(a, b) ==
    IF a.d = b.d THEN Rat(a.n + b.n, a.d)
    ELSE Rat(a.n * b.d + b.n * a.d, a.d * b.d)

\* a / b for b > 0
RDiv(a, b) == Rat(a.n * b.d, a.d * b.n)

---------------------------------------------------------------------------
(* Run-length encoded lists of numbers *)

RECURSIVE RLSum(_)
RLSum(s) == IF s = <<>> THEN 0 ELSE Head(s).v * Head(s).c + RLSum(Tail(s))

RECURSIVE RLLen(_)
RLLen(s) == IF s = <<>> THEN 0 ELSE Head(s).c + RLLen(Tail(s))

RLValues(s) == {s[i].v : i \in {j \in 1..Len(s) : s[j].c > 0}}

RLMax(s) == CHOOSE m \in RLValues(s) : \A u \in RLValues(s) : u <= m

RECURSIVE RLCountLe(_, _)
RLCountLe(s, x) ==
    IF s = <<>> THEN 0
    ELSE (IF Head(s).v <= x THEN Head(s).c ELSE 0) + RLCountLe(Tail(s), x)

\* sorted(list)[idx], idx counted from 0
RLSortedAt(s, idx) ==
    CHOOSE x \in RLValues(s) :
        /\ RLCountLe(s, x) > idx
        /\ \A u \in RLValues(s) : u < x => RLCountLe(s, u) <= idx

Min2(a, b) == IF a <= b THEN a ELSE b

Max2(a, b) == IF a >= b THEN a ELSE b

---------------------------------------------------------------------------
(* scripts/reviews/dynamodb_finops/run.py *)

SEC_30D == 2592000

SEC_7D == 604800

PERIOD_30D == 3600

\* One answer of the Telemetry Source to one fetch: either the call raises a
\* ClientError (err) or it returns datapoints.  A group of datapoints
\* [n, Sum, Maximum, p95] stands for n datapoints carrying these statistics.
get_metric_statistics_multi(src) == src.dps

\* gather_agg has no try/except: an error of the fetch leaves it as it is
gather_agg_raises(src) == src.err

gather_agg(src, want_p95) ==
    LET dps == get_metric_statistics_multi(src)
        sums == [i \in 1..Len(dps) |-> [v |-> dps[i].Sum, c |-> dps[i].n]]
        maxs == [i \in 1..Len(dps) |-> [v |-> dps[i].Maximum, c |-> dps[i].n]]
        p95s == IF want_p95
                THEN [i \in 1..Len(dps) |-> [v |-> dps[i].p95, c |-> dps[i].n]]
                ELSE <<>>
    IN  [sums |-> sums, maxs |-> maxs, p95s |-> p95s,
         samples_count |-> RLLen(sums)]

\* MetricAggregate.total_sum
total_sum(agg) == IF RLLen(agg.sums) > 0 THEN RLSum(agg.sums) ELSE 0

\* MetricAggregate.peak
peak(agg) == IF RLLen(agg.maxs) > 0 THEN RLMax(agg.maxs) ELSE 0

\* MetricAggregate.p95: k = (n-1)*0.95, f = floor(k), c = min(f+1, n-1),
\* ordered[f]*(c-k) + ordered[c]*(k-f); the result is kept in twentieths
agg_p95(agg) ==
    LET n == RLLen(agg.p95s)
        k20 == 19 * (n - 1)
        f == k20 \div 20
        c == Min2(f + 1, n - 1)
    IN  IF n = 0 THEN RInt(0)
        ELSE IF f = c THEN RInt(RLSortedAt(agg.p95s, f))
        ELSE Rat(RLSortedAt(agg.p95s, f) * (20 * c - k20)
                 + RLSortedAt(agg.p95s, c) * (k20 - 20 * f), 20)

safe_div_mut_default(n, d) == IF d.n # 0 THEN RDiv(n, d) ELSE n

\* n / d if d else default (default 0.0)
safe_div(n, d) == IF d.n # 0 THEN RDiv(n, d) ELSE RInt(0)

stability_ratio(pk, avg) == IF avg.n <= 0 THEN RInt(0) ELSE RDiv(pk, avg)

\* math.floor(SEC_30D / 3600)
expected_samples(sec, period) == sec \div period

\* samples >= expected * 0.95 for reads and for writes
coverage_ok_mut_or(samples_read, samples_write, expected) ==
    \/ 100 * samples_read >= 95 * expected
    \/ 100 * samples_write >= 95 * expected

coverage_ok(samples_read, samples_write, expected) ==
    /\ 100 * samples_read >= 95 * expected
    /\ 100 * samples_write >= 95 * expected

sustained_mut_low(avg_ops_sec) == RLe(RInt(1), avg_ops_sec)

sustained_mut_flipped(avg_ops_sec) == RLe(avg_ops_sec, RInt(10))

\* avg_ops_sec >= 10.0
sustained(avg_ops_sec) == RLe(RInt(10), avg_ops_sec)

\* fetch_gsi_signals: top GSI by 30d read peak and by 30d throttle sum
RECURSIVE fetch_gsi_signals(_, _, _)
fetch_gsi_signals(gsi_names, gsi_tel, best) ==
    IF gsi_names = <<>> THEN best
    ELSE LET gsi == Head(gsi_names)
             read_30d == gather_agg(gsi_tel[gsi].read_30d, FALSE)
             thr_r_30d == total_sum(gather_agg(gsi_tel[gsi].thr_r_30d, FALSE))
             thr_w_30d == total_sum(gather_agg(gsi_tel[gsi].thr_w_30d, FALSE))
             thr_sum == thr_r_30d + thr_w_30d
             b1 == IF peak(read_30d) > best.read_peak
                   THEN [best EXCEPT !.read_name = gsi, !.read_peak = peak(read_30d)]
                   ELSE best
             b2 == IF thr_sum > b1.thr_sum
                   THEN [b1 EXCEPT !.thr_name = gsi, !.thr_sum = thr_sum]
                   ELSE b1
         IN  fetch_gsi_signals(Tail(gsi_names), gsi_tel, b2)

fetch_gsi_signals_raises(gsi_names, gsi_tel) ==
    \E i \in 1..Len(gsi_names) :
        \/ gather_agg_raises(gsi_tel[gsi_names[i]].read_30d)
        \/ gather_agg_raises(gsi_tel[gsi_names[i]].thr_r_30d)
        \/ gather_agg_raises(gsi_tel[gsi_names[i]].thr_w_30d)

\* The values collect_table derives before its decision rules
table_indicators(tab) ==
    LET read_7d == gather_agg(tab.tel.read_7d, TRUE)
        write_7d == gather_agg(tab.tel.write_7d, TRUE)
        read_30d == gather_agg(tab.tel.read_30d, TRUE)
        write_30d == gather_agg(tab.tel.write_30d, TRUE)
        total_30d_read == total_sum(read_30d)
        total_30d_write == total_sum(write_30d)
        avg_30d_read_per_sec == safe_div(RInt(total_30d_read), RInt(SEC_30D))
        avg_30d_write_per_sec == safe_div(RInt(total_30d_write), RInt(SEC_30D))
        avg_7d_read_per_sec == safe_div(RInt(total_sum(read_7d)), RInt(SEC_7D))
        avg_7d_write_per_sec == safe_div(RInt(total_sum(write_7d)), RInt(SEC_7D))
        expected_samples_30d == expected_samples(SEC_30D, PERIOD_30D)
        gsi == IF tab.gsi_names # <<>>
               THEN fetch_gsi_signals(tab.gsi_names, tab.gsi_tel,
                        [read_name |-> "", read_peak |-> 0,
                         thr_name |-> "", thr_sum |-> 0])
               ELSE [read_name |-> "", read_peak |-> 0,
                     thr_name |-> "", thr_sum |-> 0]
    IN  [TableName |-> tab.TableName,
         Region |-> "",
         total_30d_read |-> total_30d_read,
         total_30d_write |-> total_30d_write,
         avg_30d_read_per_sec |-> avg_30d_read_per_sec,
         avg_30d_write_per_sec |-> avg_30d_write_per_sec,
         peak_30d_read |-> peak(read_30d),
         peak_30d_write |-> peak(write_30d),
         avg_7d_read_per_sec |-> avg_7d_read_per_sec,
         avg_7d_write_per_sec |-> avg_7d_write_per_sec,
         peak_7d_read |-> peak(read_7d),
         peak_7d_write |-> peak(write_7d),
         p95_7d_read |-> agg_p95(read_7d),
         p95_7d_write |-> agg_p95(write_7d),
         stability_7d_read |->
             stability_ratio(RInt(peak(read_7d)), avg_7d_read_per_sec),
         stability_7d_write |->
             stability_ratio(RInt(peak(write_7d)), avg_7d_write_per_sec),
         samples_30d_read |-> read_30d.samples_count,
         samples_30d_write |-> write_30d.samples_count,
         expected_samples_30d |-> expected_samples_30d,
         coverage_ok |-> coverage_ok(read_30d.samples_count,
                             write_30d.samples_count, expected_samples_30d),
         throttle_read_7d_sum |-> total_sum(gather_agg(tab.tel.thr_r_7d, FALSE)),
         throttle_write_7d_sum |-> total_sum(gather_agg(tab.tel.thr_w_7d, FALSE)),
         throttle_read_30d_sum |-> total_sum(gather_agg(tab.tel.thr_r_30d, FALSE)),
         throttle_write_30d_sum |-> total_sum(gather_agg(tab.tel.thr_w_30d, FALSE)),
         avg_ops_sec |-> RAdd(avg_30d_read_per_sec, avg_30d_write_per_sec),
         read_spike_ratio |->
             stability_ratio(RInt(peak(read_30d)), avg_30d_read_per_sec),
         write_spike_ratio |->
             stability_ratio(RInt(peak(write_30d)), avg_30d_write_per_sec),
         headroom_r |-> safe_div(agg_p95(read_7d), RInt(peak(read_30d))),
         headroom_w |-> safe_div(agg_p95(write_7d), RInt(peak(write_30d))),
         gsi_top_name_by_read_peak |-> gsi.read_name,
         gsi_top_read_peak_30d |-> gsi.read_peak,
         gsi_top_name_by_throttle |-> gsi.thr_name,
         gsi_top_throttle_30d_sum |-> gsi.thr_sum]

NEED_MORE_DATA == "NEED_MORE_DATA"

THROTTLES == "ON_DEMAND | throttles observed"

STRONG == "PROVISIONED_STRONG (AS target~70%)"

CAUTIOUS == "PROVISIONED_CAUTIOUS (AS target~70% + alarms)"

ON_DEMAND == "ON_DEMAND"

\* `stable and low_burst and sustained and (headroom_r <= 0.6) and
\* (headroom_w <= 0.6)`
strong_condition(ind) ==
    LET stable == /\ RLe(ind.stability_7d_read, RInt(2))
                  /\ RLe(ind.stability_7d_write, RInt(2))
        low_burst == /\ RLe(ind.read_spike_ratio, RInt(2))
                     /\ RLe(ind.write_spike_ratio, RInt(2))
    IN  /\ stable /\ low_burst /\ sustained(ind.avg_ops_sec)
        /\ RLe(ind.headroom_r, Rat(6, 10))
        /\ RLe(ind.headroom_w, Rat(6, 10))

\* `sustained and (semi_stable or med_burst)`
cautious_condition(ind) ==
    LET semi_stable == /\ RLe(ind.stability_7d_read, RInt(3))
                       /\ RLe(ind.stability_7d_write, RInt(3))
        med_burst == /\ RLe(ind.read_spike_ratio, RInt(4))
                     /\ RLe(ind.write_spike_ratio, RInt(4))
    IN  sustained(ind.avg_ops_sec) /\ (semi_stable \/ med_burst)

\* the branch of the decision rules below the two base guards
steady_rules(ind) ==
    IF strong_condition(ind) THEN STRONG
    ELSE IF cautious_condition(ind) THEN CAUTIOUS
    ELSE ON_DEMAND

throttle_sum(ind) ==
    ind.throttle_read_7d_sum + ind.throttle_write_7d_sum
    + ind.throttle_read_30d_sum + ind.throttle_write_30d_sum

\* mutant: the throttle guard is tested before the coverage guard
decision_rules_mut_throttle_first(ind) ==
    IF throttle_sum(ind) > 0 THEN THROTTLES
    ELSE IF ~ind.coverage_ok THEN NEED_MORE_DATA
    ELSE steady_rules(ind)

\* mutant: the throttle guard is tested after the steady-state branches
decision_rules_mut_throttle_last(ind) ==
    IF ~ind.coverage_ok THEN NEED_MORE_DATA
    ELSE IF steady_rules(ind) # ON_DEMAND THEN steady_rules(ind)
    ELSE IF throttle_sum(ind) > 0 THEN THROTTLES
    ELSE ON_DEMAND

\* mutant: no throttle guard
decision_rules_mut_no_throttle_guard(ind) ==
    IF ~ind.coverage_ok THEN NEED_MORE_DATA
    ELSE steady_rules(ind)

\* collect_table, "Decision rules": first satisfied condition wins
decision_rules(ind) ==
    IF ~ind.coverage_ok THEN NEED_MORE_DATA
    ELSE IF throttle_sum(ind) > 0 THEN THROTTLES
    ELSE steady_rules(ind)

collect_table_raises(tab) ==
    \/ gather_agg_raises(tab.tel.read_7d)
    \/ gather_agg_raises(tab.tel.write_7d)
    \/ gather_agg_raises(tab.tel.read_30d)
    \/ gather_agg_raises(tab.tel.write_30d)
    \/ gather_agg_raises(tab.tel.thr_r_7d)
    \/ gather_agg_raises(tab.tel.thr_w_7d)
    \/ gather_agg_raises(tab.tel.thr_r_30d)
    \/ gather_agg_raises(tab.tel.thr_w_30d)
    \/ fetch_gsi_signals_raises(tab.gsi_names, tab.gsi_tel)

\* The row collect_table returns.  The ratio columns carry the exact value
\* (the CSV rounds them to 3..6 decimals after the decision has been taken);
\* the locals avg_7d_*_per_sec and peak_7d_* are kept beside the columns.
collect_table(tab) ==
    LET ind == table_indicators(tab)
    IN  ind @@ [recommendation |-> decision_rules(ind)]


(* What the sources may answer for one table *)

Dp(n, s, m, p) == [n |-> n, Sum |-> s, Maximum |-> m, p95 |-> p]

Src(dps) == [err |-> FALSE, dps |-> dps]

ErrSrc == [err |-> TRUE, dps |-> <<>>]

NoSamples == <<>>

\* hourly datapoints of a 30-day fetch of Consumed*CapacityUnits
Consumed30 ==
    { NoSamples,
      <<Dp(720, 0, 0, 0)>>,
      <<Dp(720, 7200, 3, 3)>>,
      <<Dp(720, 36000, 20, 20)>>,
      <<Dp(683, 38000, 20, 20)>>,
      <<Dp(700, 36000, 20, 20), Dp(20, 36000, 500, 500)>> }

\* 15-minute datapoints of a 7-day fetch of Consumed*CapacityUnits
Consumed7 ==
    { NoSamples,
      <<Dp(672, 0, 0, 0)>>,
      <<Dp(672, 1800, 3, 3)>>,
      <<Dp(672, 9000, 12, 12)>>,
      <<Dp(640, 9000, 12, 12), Dp(32, 9000, 25, 25)>> }

\* datapoints of a fetch of Read/WriteThrottleEvents
Throttle == { NoSamples, <<Dp(1, 5, 5, 0)>> }

\* sample counts around the coverage thresholds (0.9 and 0.95 of 720)
CoverageCounts == {1, 647, 648, 683, 684, 720, 721}

Tel(r7, w7, r30, w30, tr7, tw7, tr30, tw30) ==
    [read_7d |-> r7, write_7d |-> w7, read_30d |-> r30, write_30d |-> w30,
     thr_r_7d |-> tr7, thr_w_7d |-> tw7, thr_r_30d |-> tr30, thr_w_30d |-> tw30]

GsiTel(rd, tr, tw) == [read_30d |-> rd, thr_r_30d |-> tr, thr_w_30d |-> tw]

NoGsi == [names |-> <<>>, tel |-> <<>>]

OneGsi(gt) == [names |-> <<"gsi1">>, tel |-> [g \in {"gsi1"} |-> gt]]

Table(name, describe_ok, gsi, tel) ==
    [TableName |-> name, describe_ok |-> describe_ok,
     gsi_names |-> gsi.names, gsi_tel |-> gsi.tel, tel |-> tel]

\* tables whose every fetch succeeds, over all combinations of the answers
RichTables ==
    { Table("T1", TRUE, gsi,
            Tel(Src(r7), Src(w7), Src(r30), Src(w30),
                Src(tr7), Src(tw7), Src(tr30), Src(tw30))) :
        r7 \in Consumed7, w7 \in Consumed7,
        r30 \in Consumed30, w30 \in Consumed30,
        tr7 \in Throttle, tw7 \in Throttle,
        tr30 \in Throttle, tw30 \in Throttle,
        gsi \in { NoGsi,
                  OneGsi(GsiTel(Src(<<Dp(720, 3600, 9, 0)>>),
                                Src(<<Dp(1, 7, 7, 0)>>), Src(NoSamples))) } }

\* tables whose 30-day sample counts sweep the coverage thresholds
CoverageTables ==
    { Table("T1", TRUE, NoGsi,
            Tel(Src(<<Dp(672, 9000, 12, 12)>>), Src(<<Dp(672, 9000, 12, 12)>>),
                Src(<<Dp(nr, 36000, 20, 20)>>), Src(<<Dp(nw, 36000, 20, 20)>>),
                Src(NoSamples), Src(tw7), Src(NoSamples), Src(NoSamples))) :
        nr \in CoverageCounts, nw \in CoverageCounts, tw7 \in Throttle }

\* tables with full 30-day coverage and a 30-day peak of 10 whose 7-day
\* fetches may return no datapoint
HeadroomTables ==
    { Table("T1", TRUE, NoGsi,
            Tel(Src(r7), Src(w7),
                Src(<<Dp(720, 18000, 10, 10)>>), Src(<<Dp(720, 18000, 10, 10)>>),
                Src(NoSamples), Src(NoSamples), Src(NoSamples), Src(NoSamples))) :
        r7 \in {NoSamples, <<Dp(672, 4500, 8, 8)>>},
        w7 \in {NoSamples, <<Dp(672, 4500, 8, 8)>>} }

SteadyTel ==
    Tel(Src(<<Dp(672, 9000, 12, 12)>>), Src(<<Dp(672, 9000, 12, 12)>>),
        Src(<<Dp(720, 36000, 20, 20)>>), Src(<<Dp(720, 36000, 20, 20)>>),
        Src(NoSamples), Src(NoSamples), Src(NoSamples), Src(NoSamples))

NoDataTel ==
    Tel(Src(NoSamples), Src(NoSamples), Src(NoSamples), Src(NoSamples),
        Src(NoSamples), Src(NoSamples), Src(NoSamples), Src(NoSamples))

FetchNames ==
    {"read_7d", "write_7d", "read_30d", "write_30d",
     "thr_r_7d", "thr_w_7d", "thr_r_30d", "thr_w_30d"}

\* tables for which describe_table fails, or one fetch raises a ClientError
FailTables ==
    { Table("T1", FALSE, NoGsi, SteadyTel) }
    \cup { Table("T1", TRUE, NoGsi, [SteadyTel EXCEPT ![f] = ErrSrc]) :
             f \in FetchNames }
    \cup { Table("T1", TRUE,
                 OneGsi(GsiTel(Src(NoSamples), ErrSrc, Src(NoSamples))),
                 SteadyTel) }

Region(name, list_ok, tables) ==
    [region |-> name, list_ok |-> list_ok, tables |-> tables]

---------------------------------------------------------------------------
(* dynamodb_finops: main and collect_region *)

Skip(what, region, name) == [what |-> what, region |-> region, name |-> name]

cur_region == inventory[r]

cur_table == inventory[r].tables[t]

\* collect_region: the list_tables paginator raises; nothing catches it
ListTablesRaises ==
    /\ script = "dynamodb_finops" /\ pc = "regions"
    /\ r <= Len(inventory) /\ ~cur_region.list_ok
    /\ pc' = "crashed"
    /\ UNCHANGED <<given, eff_period, requests, nat_rows_all, r, t, rows, all_rows, csv, stderr>>

\* collect_region: table names listed, rows = []
ListTables ==
    /\ script = "dynamodb_finops" /\ pc = "regions"
    /\ r <= Len(inventory) /\ cur_region.list_ok
    /\ rows' = <<>> /\ t' = 1 /\ pc' = "tables"
    /\ UNCHANGED <<given, eff_period, requests, nat_rows_all, r, all_rows, csv, stderr>>

\* describe_table raises ClientError: logged, next table
DescribeTableFails ==
    /\ script = "dynamodb_finops" /\ pc = "tables"
    /\ t <= Len(cur_region.tables) /\ ~cur_table.describe_ok
    /\ stderr' = Append(stderr,
                    Skip("describe_table", cur_region.region, cur_table.TableName))
    /\ t' = t + 1
    /\ UNCHANGED <<given, eff_period, requests, nat_rows_all, r, rows, all_rows, csv, pc>>

\* collect_table raises ClientError: logged, no row, next table
CollectTableFails ==
    /\ script = "dynamodb_finops" /\ pc = "tables"
    /\ t <= Len(cur_region.tables) /\ cur_table.describe_ok
    /\ collect_table_raises(cur_table)
    /\ stderr' = Append(stderr,
                    Skip("metrics", cur_region.region, cur_table.TableName))
    /\ t' = t + 1
    /\ UNCHANGED <<given, eff_period, requests, nat_rows_all, r, rows, all_rows, csv, pc>>

\* collect_table returns a row: rows.append(row)
CollectTableRow ==
    /\ script = "dynamodb_finops" /\ pc = "tables"
    /\ t <= Len(cur_region.tables) /\ cur_table.describe_ok
    /\ ~collect_table_raises(cur_table)
    /\ rows' = Append(rows, [collect_table(cur_table) EXCEPT !.Region = cur_region.region])
    /\ t' = t + 1
    /\ UNCHANGED <<given, eff_period, requests, nat_rows_all, r, all_rows, csv, stderr, pc>>

\* collect_region returns; main: all_rows.extend(...)
ReturnRows ==
    /\ script = "dynamodb_finops" /\ pc = "tables"
    /\ t > Len(cur_region.tables)
    /\ all_rows' = all_rows \o rows
    /\ rows' = <<>> /\ t' = 1 /\ r' = r + 1 /\ pc' = "regions"
    /\ UNCHANGED <<given, eff_period, requests, nat_rows_all, csv, stderr>>

\* main: write_csv(output_path, all_rows, CSV_FIELDS)
WriteCsv ==
    /\ script = "dynamodb_finops" /\ pc = "regions"
    /\ r > Len(inventory)
    /\ csv' = all_rows /\ pc' = "done"
    /\ UNCHANGED <<given, eff_period, requests, nat_rows_all, r, t, rows, all_rows, stderr>>

NextDdb ==
    \/ ListTablesRaises \/ ListTables \/ DescribeTableFails
    \/ CollectTableFails \/ CollectTableRow \/ ReturnRows \/ WriteCsv

\* dynamodb_finops has no --days/--period: its windows are fixed in the code
DdbArgs == args = <<>> /\ eff_period = 0

InitRun ==
    /\ r = 1 /\ t = 1 /\ rows = <<>> /\ all_rows = <<>> /\ nat_rows_all = <<>>
    /\ requests = <<>>
    /\ csv = <<>> /\ stderr = <<>> /\ pc = "regions"

\* one region holding one table, over every answer of the sources
InitDdbRules ==
    /\ script = "dynamodb_finops" /\ DdbArgs
    /\ \/ \E tab \in RichTables \cup CoverageTables \cup HeadroomTables
                        \cup FailTables :
              inventory = <<Region("us-east-1", TRUE, <<tab>>)>>
       \/ inventory = <<Region("us-east-1", FALSE, <<>>)>>
    /\ InitRun

Spec == InitDdbRules /\ [][NextDdb]_vars


---------------------------------------------------------------------------
(* dynamodb_finops over regions holding several tables *)

MaxTables == 2

TableKinds ==
    { [describe_ok |-> TRUE,  tel |-> NoDataTel],
      [describe_ok |-> TRUE,  tel |-> SteadyTel],
      [describe_ok |-> FALSE, tel |-> SteadyTel],
      [describe_ok |-> TRUE,  tel |-> [SteadyTel EXCEPT !.read_30d = ErrSrc]] }

\* list_tables answers unique names; collect_region walks them sorted
TableNames == <<"T1", "T2", "T3", "T4">>

TableLists ==
    UNION { { [i \in 1..n |->
                 Table(TableNames[i], k[i].describe_ok, NoGsi, k[i].tel)] :
              k \in [1..n -> TableKinds] } : n \in 0..MaxTables }

DdbRegions ==
    { Region(name, FALSE, <<>>) : name \in {"us-east-1"} }
    \cup { Region(name, TRUE, tabs) : name \in {"us-east-1"}, tabs \in TableLists }

\* --region us-east-1,eu-west-1
InitDdbRegions ==
    /\ script = "dynamodb_finops" /\ DdbArgs
    /\ \E r1 \in DdbRegions, r2 \in DdbRegions :
          inventory = <<r1, [r2 EXCEPT !.region = "eu-west-1"]>>
    /\ InitRun

---------------------------------------------------------------------------
(* s3_cost_analysis: main and collect_profile *)

\* STORAGE_TYPE_MAP, three of its thirteen storage types
STORAGE_TYPE_MAP == {"StandardStorage", "StandardIAStorage", "GlacierStorage"}

cold_keys == {"StandardIAStorage", "GlacierStorage"}

\* get_metric_series: the datapoints' values in time order, or ClientError
get_metric_series(src) == src.dps

\* safe_metric / safe_obj_metric: a ClientError is logged and gives []
safe_metric(src) == IF src.err THEN <<>> ELSE get_metric_series(src)

safe_obj_metric(src) == IF src.err THEN <<>> ELSE get_metric_series(src)

Last(q) == q[Len(q)]

\* bucket_metrics: storage holds a storage type only if its series is not
\* empty; obj_count is None if the object series is empty
bucket_metrics(b) ==
    LET has == { st \in STORAGE_TYPE_MAP : safe_metric(b.storage[st]) # <<>> }
        obj == safe_obj_metric(b.objects)
    IN  [storage |-> [st \in has |-> Last(safe_metric(b.storage[st]))],
         obj_none |-> obj = <<>>,
         obj_count |-> IF obj = <<>> THEN 0 ELSE Last(obj)]

RECURSIVE SumOver(_, _)
SumOver(f, keys) ==
    IF keys = {} THEN 0
    ELSE LET k == CHOOSE x \in keys : TRUE
         IN  f[k] + SumOver(f, keys \ {k})

cold_storage_bytes(storage) ==
    SumOver(storage, cold_keys \cap DOMAIN storage)

\* the row collect_profile builds from the metrics of one bucket (sizes in
\* GiB; the configuration columns are left out)
bucket_row(profile, b) ==
    LET m == bucket_metrics(b)
        total_bytes == SumOver(m.storage, DOMAIN m.storage)
        cold_bytes == cold_storage_bytes(m.storage)
    IN  [profile |-> profile, bucket_name |-> b.Name,
         total_storage_gb |-> total_bytes,
         object_count_none |-> m.obj_none, object_count |-> m.obj_count,
         storage |-> m.storage,
         cold_storage_ratio_pct |->
             IF total_bytes > 0 THEN Rat(cold_bytes * 100, total_bytes)
             ELSE RInt(0)]

no_metrics_returned_mut_obj_present(b) ==
    LET m == bucket_metrics(b)
    IN  DOMAIN m.storage = {} /\ ~m.obj_none

\* `not storage_bytes and obj_count is None`
no_metrics_returned(b) ==
    LET m == bucket_metrics(b)
    IN  DOMAIN m.storage = {} /\ m.obj_none

cur_profile == inventory[r]

cur_bucket == inventory[r].buckets[t]

\* main: effective_period = max(args.period, 86400), then the profile loop;
\* session_for_profile, sts_whoami or list_buckets raises ClientError or
\* ProfileNotFound: main logs it and goes to the next profile
S3ProfileFails ==
    /\ script = "s3_cost_analysis" /\ pc = "profiles"
    /\ r <= Len(inventory) /\ ~cur_profile.list_ok
    /\ stderr' = Append(stderr, Skip("AWS error", cur_profile.profile, ""))
    /\ r' = r + 1
    /\ UNCHANGED <<given, eff_period, requests, nat_rows_all, t, rows, all_rows, csv, pc>>

\* collect_profile: buckets listed, rows = []
S3ListBuckets ==
    /\ script = "s3_cost_analysis" /\ pc = "profiles"
    /\ r <= Len(inventory) /\ cur_profile.list_ok
    /\ rows' = <<>> /\ t' = 1 /\ pc' = "buckets"
    /\ UNCHANGED <<given, eff_period, requests, nat_rows_all, r, all_rows, csv, stderr>>

\* get_bucket_location raises ClientError: logged, next bucket
S3BucketLocationFails ==
    /\ script = "s3_cost_analysis" /\ pc = "buckets"
    /\ t <= Len(cur_profile.buckets) /\ ~cur_bucket.location_ok
    /\ stderr' = Append(stderr, Skip("unable to resolve region",
                                     cur_profile.profile, cur_bucket.Name))
    /\ t' = t + 1
    /\ UNCHANGED <<given, eff_period, requests, nat_rows_all, r, rows, all_rows, csv, pc>>

\* no storage series and no object series: logged, next bucket, no row
S3BucketNoMetrics ==
    /\ script = "s3_cost_analysis" /\ pc = "buckets"
    /\ t <= Len(cur_profile.buckets) /\ cur_bucket.location_ok
    /\ no_metrics_returned(cur_bucket)
    /\ stderr' = Append(stderr, Skip("no metrics returned",
                                     cur_profile.profile, cur_bucket.Name))
    /\ t' = t + 1
    /\ UNCHANGED <<given, eff_period, requests, nat_rows_all, r, rows, all_rows, csv, pc>>

\* rows.append(row)
S3BucketRow ==
    /\ script = "s3_cost_analysis" /\ pc = "buckets"
    /\ t <= Len(cur_profile.buckets) /\ cur_bucket.location_ok
    /\ ~no_metrics_returned(cur_bucket)
    /\ rows' = Append(rows, bucket_row(cur_profile.profile, cur_bucket))
    /\ t' = t + 1
    /\ UNCHANGED <<given, eff_period, requests, nat_rows_all, r, all_rows, csv, stderr, pc>>

\* collect_profile returns; main skips an empty profile, else extends all_rows
S3ProfileDone ==
    /\ script = "s3_cost_analysis" /\ pc = "buckets"
    /\ t > Len(cur_profile.buckets)
    /\ all_rows' = all_rows \o rows
    /\ stderr' = IF rows = <<>>
                 THEN Append(stderr, Skip("no S3 metrics collected",
                                          cur_profile.profile, ""))
                 ELSE stderr
    /\ rows' = <<>> /\ t' = 1 /\ r' = r + 1 /\ pc' = "profiles"
    /\ UNCHANGED <<given, eff_period, requests, nat_rows_all, csv>>

\* main: the summary file is written only if all_rows is not empty
S3WriteSummary ==
    /\ script = "s3_cost_analysis" /\ pc = "profiles"
    /\ r > Len(inventory)
    /\ csv' = all_rows /\ pc' = "done"
    /\ UNCHANGED <<given, eff_period, requests, nat_rows_all, r, t, rows, all_rows, stderr>>

NextS3 ==
    \/ S3ProfileFails \/ S3ListBuckets \/ S3BucketLocationFails
    \/ S3BucketNoMetrics \/ S3BucketRow \/ S3ProfileDone \/ S3WriteSummary

MaxBuckets == 2

Bucket(name, location_ok, std, ia, gl, obj) ==
    [Name |-> name, location_ok |-> location_ok,
     storage |-> [st \in STORAGE_TYPE_MAP |->
                    CASE st = "StandardStorage" -> std
                      [] st = "StandardIAStorage" -> ia
                      [] OTHER -> gl],
     objects |-> obj]

\* daily datapoints: none yet, all fetches denied, storage and objects,
\* an empty bucket (objects only), cold storage, and an unreachable bucket
BucketKinds ==
    { Bucket("b", TRUE, Src(<<>>), Src(<<>>), Src(<<>>), Src(<<>>)),
      Bucket("b", TRUE, ErrSrc, ErrSrc, ErrSrc, ErrSrc),
      Bucket("b", TRUE, Src(<<40, 60>>), Src(<<>>), Src(<<>>), Src(<<7, 9>>)),
      Bucket("b", TRUE, Src(<<>>), Src(<<>>), Src(<<>>), Src(<<0>>)),
      Bucket("b", TRUE, Src(<<10>>), Src(<<30>>), ErrSrc, Src(<<>>)),
      Bucket("b", FALSE, Src(<<40>>), Src(<<>>), Src(<<>>), Src(<<5>>)) }

BucketNames == <<"b1", "b2", "b3", "b4">>

BucketLists ==
    UNION { { [i \in 1..n |-> [k[i] EXCEPT !.Name = BucketNames[i]]] :
              k \in [1..n -> BucketKinds] } : n \in 0..MaxBuckets }

Profile(name, list_ok, buckets) ==
    [profile |-> name, list_ok |-> list_ok, buckets |-> buckets]

S3Profiles ==
    { Profile("p1", FALSE, <<>>) }
    \cup { Profile("p1", TRUE, bs) : bs \in BucketLists }

\* --profiles p1 p2 with the default --days 30 --period 86400
InitS3 ==
    /\ script = "s3_cost_analysis"
    /\ args = [days |-> 30, period |-> 86400] /\ eff_period = 86400
    /\ \E p1 \in S3Profiles, p2 \in S3Profiles :
          inventory = <<p1, [p2 EXCEPT !.profile = "p2"]>>
    /\ r = 1 /\ t = 1 /\ rows = <<>> /\ all_rows = <<>> /\ nat_rows_all = <<>>
    /\ requests = <<>>
    /\ csv = <<>> /\ stderr = <<>> /\ pc = "profiles"

\* batch runs: two regions of tables, or two profiles of buckets
SpecBatch ==
    (InitDdbRegions \/ InitS3) /\ [][NextDdb \/ NextS3]_vars

\* the runs that derive ratios: one table over every answer of the sources,
\* or two profiles of buckets
SpecRatios ==
    (InitDdbRules \/ InitS3) /\ [][NextDdb \/ NextS3]_vars


---------------------------------------------------------------------------
(* scripts.common.cloudwatch: summarize, and Python's None *)

\* None, where the code has Optional[float]
None == [n |-> 0, d |-> 0]

IsNone(x) == x.d = 0

\* _percentile(sorted_series, p) with linear interpolation, p in percent
_percentile(s, p) ==
    IF s = <<>> THEN None
    ELSE LET n == RLLen(s)
             k100 == (n - 1) * p
             f == k100 \div 100
             c == Min2(f + 1, n - 1)
         IN  IF f = c THEN RInt(RLSortedAt(s, f))
             ELSE Rat(RLSortedAt(s, f) * 100
                        + (RLSortedAt(s, c) - RLSortedAt(s, f)) * (k100 - 100 * f),
                      100)

\* summarize(series) -> (avg, p95, max), (None, None, None) if empty
summarize(series) ==
    IF series = <<>> THEN [avg |-> None, p95 |-> None, mx |-> None]
    ELSE [avg |-> Rat(RLSum(series), RLLen(series)),
          p95 |-> _percentile(series, 95),
          mx  |-> RInt(RLMax(series))]

RL(v, c) == <<[v |-> v, c |-> c]>>

---------------------------------------------------------------------------
(* amazon_mq_finops: collect_profile *)

\* safe_series: a ClientError is logged and gives []
mq_safe_series(src) == IF src.err THEN <<>> ELSE get_metric_series(src)

\* `if a is not None or mx is not None: return a, p95, mx`
average_ok(first) == ~IsNone(first.avg) \/ ~IsNone(first.mx)

\* Average first; if that series is empty, Maximum
get_stat_with_fallback(mt) ==
    LET first == summarize(mq_safe_series(mt.Average))
    IN  IF average_ok(first) THEN first
        ELSE summarize(mq_safe_series(mt.Maximum))

\* one get_metric_series call of get_stat_with_fallback
MqFetch(metric, stat, broker) ==
    [ns |-> "AWS/AmazonMQ", metric |-> metric, stat |-> stat, broker |-> broker]

\* the calls of get_stat_with_fallback, in the order it makes them
stat_fetches(metric, mt, broker) ==
    <<MqFetch(metric, "Average", broker)>>
    \o (IF average_ok(summarize(mq_safe_series(mt.Average))) THEN <<>>
        ELSE <<MqFetch(metric, "Maximum", broker)>>)

\* `x or 0.0`
OrZero(x) == IF IsNone(x) \/ x.n = 0 THEN RInt(0) ELSE x

large_host(host) ==
    \/ host.size \in {"xlarge", "2xlarge", "4xlarge"}
    \/ host.family \in {"m5", "m6g", "m6i"}

\* compute_flags: a None metric counts as 0.0 (the message signal is never
\* negative here, so abs() is the identity)
compute_flags(avg_cpu, avg_conn, msg_signal, host_type, deployment_mode, logs_retention_days, logs_enabled, backup_count, flow_logs_enabled) ==
    LET cpu == IF IsNone(avg_cpu) THEN RInt(0) ELSE avg_cpu
        conn == IF IsNone(avg_conn) THEN RInt(0) ELSE avg_conn
        msg == IF IsNone(msg_signal) THEN RInt(0) ELSE msg_signal
    IN  [flag_idle_candidate |->
             RLt(cpu, RInt(5)) /\ RLt(conn, RInt(1))
             /\ RLt(msg, Rat(1, 1000000)),
         flag_overprovisioned_candidate |->
             RLt(cpu, RInt(15)) /\ large_host(host_type),
         flag_single_az_attention |-> deployment_mode = "SINGLE_INSTANCE",
         flag_logs_retention_long |->
             logs_enabled /\ (logs_retention_days = 0 \/ logs_retention_days > 30),
         flag_no_logs_detected |-> ~logs_enabled,
         flag_no_backup_detected |-> backup_count = 0,
         flag_no_flowlogs_detected |-> ~flow_logs_enabled]

\* recommend_action: the parts the code joins with "; "
recommend_action(flags, logs_enabled) ==
    (IF flags.flag_idle_candidate THEN <<"Stop/Downsize broker">> ELSE <<>>)
    \o (IF flags.flag_overprovisioned_candidate
        THEN <<"Downsize instance type">> ELSE <<>>)
    \o (IF logs_enabled /\ flags.flag_logs_retention_long
        THEN <<"Reduce CW Logs retention to 14-30d">> ELSE <<>>)
    \o (IF flags.flag_no_backup_detected
        THEN <<"Configure AWS Backup or verify DR plan">> ELSE <<>>)
    \o (IF flags.flag_single_az_attention THEN <<"Assess HA vs cost">> ELSE <<>>)
    \o (IF flags.flag_no_flowlogs_detected
        THEN <<"Consider enabling VPC Flow Logs (optional)">> ELSE <<>>)

\* the per-broker part of collect_profile: the metrics, the flags, the row.
\* A metric is fetched only if dimensions were discovered for it, or for the
\* CPU metric.
broker_row(region, flowlogs_enabled, br) ==
    LET cpu_dims == br.tel.cpu.dims
        has(mt) == mt.dims \/ cpu_dims
        cpu == IF cpu_dims THEN get_stat_with_fallback(br.tel.cpu)
               ELSE summarize(<<>>)
        avg_conn == IF has(br.tel.conn)
                    THEN get_stat_with_fallback(br.tel.conn).avg ELSE None
        msg_count_avg == IF has(br.tel.m1)
                         THEN get_stat_with_fallback(br.tel.m1).avg ELSE None
        msg_ready_avg == IF has(br.tel.m2)
                         THEN get_stat_with_fallback(br.tel.m2).avg ELSE None
        val1 == OrZero(msg_count_avg)
        val2 == OrZero(msg_ready_avg)
        msg_signal == IF val1.n # 0 \/ val2.n # 0
                      THEN Rat(val1.n * val2.d + val2.n * val1.d, val1.d * val2.d)
                      ELSE RInt(0)
        flags == compute_flags(cpu.avg, avg_conn, msg_signal, br.host,
                               br.deployment_mode, br.logs_retention_days,
                               br.logs_enabled, br.backup_count,
                               flowlogs_enabled)
    IN  [region |-> region, broker_id |-> br.BrokerId,
         host_instance_type |-> br.host,
         avg_cpu_Xd |-> cpu.avg, max_cpu_Xd |-> cpu.mx,
         avg_connections_Xd |-> avg_conn, msg_activity_Xd |-> msg_signal,
         msg_count_avg |-> msg_count_avg, msg_ready_avg |-> msg_ready_avg,
         flags |-> flags,
         recommended_action |-> recommend_action(flags, br.logs_enabled)]

\* the fetches of the per-broker part, in order: CPU, connections, the two
\* message metrics, each only if it has dimensions of its own or the CPU's
broker_fetches(br) ==
    LET cpu_dims == br.tel.cpu.dims
        has(mt) == mt.dims \/ cpu_dims
    IN  (IF cpu_dims THEN stat_fetches("cpu", br.tel.cpu, br.BrokerId) ELSE <<>>)
        \o (IF has(br.tel.conn)
            THEN stat_fetches("conn", br.tel.conn, br.BrokerId) ELSE <<>>)
        \o (IF has(br.tel.m1)
            THEN stat_fetches("m1", br.tel.m1, br.BrokerId) ELSE <<>>)
        \o (IF has(br.tel.m2)
            THEN stat_fetches("m2", br.tel.m2, br.BrokerId) ELSE <<>>)

cur_broker == inventory[r].brokers[t]

\* list_brokers raises ClientError: logged, next region
MqListBrokersFails ==
    /\ script = "amazon_mq_finops" /\ pc = "regions"
    /\ r <= Len(inventory) /\ ~cur_region.list_ok
    /\ stderr' = Append(stderr, Skip("list_brokers", cur_region.region, ""))
    /\ r' = r + 1
    /\ UNCHANGED <<given, eff_period, requests, nat_rows_all, t, rows, all_rows, csv, pc>>

MqListBrokers ==
    /\ script = "amazon_mq_finops" /\ pc = "regions"
    /\ r <= Len(inventory) /\ cur_region.list_ok
    /\ t' = 1 /\ pc' = "brokers"
    /\ UNCHANGED <<given, eff_period, requests, nat_rows_all, r, rows, all_rows, csv, stderr>>

\* one broker: scan_rows.append(row); nothing in the loop body skips a broker
MqBrokerRow ==
    /\ script = "amazon_mq_finops" /\ pc = "brokers"
    /\ t <= Len(cur_region.brokers) /\ cur_broker.list_metrics_ok
    /\ rows' = Append(rows, broker_row(cur_region.region,
                                       cur_region.flowlogs_enabled, cur_broker))
    /\ requests' = requests \o broker_fetches(cur_broker)
    /\ t' = t + 1
    /\ UNCHANGED <<given, eff_period, nat_rows_all, r, all_rows, csv, stderr, pc>>

\* discover_dims_for_metric: the list_metrics paginator raises ClientError for
\* this broker; nothing in the broker loop, collect_profile or main catches it
MqListMetricsRaises ==
    /\ script = "amazon_mq_finops" /\ pc = "brokers"
    /\ t <= Len(cur_region.brokers) /\ ~cur_broker.list_metrics_ok
    /\ pc' = "crashed"
    /\ UNCHANGED <<given, eff_period, requests, nat_rows_all, r, t, rows, all_rows, csv, stderr>>

MqRegionDone ==
    /\ script = "amazon_mq_finops" /\ pc = "brokers"
    /\ t > Len(cur_region.brokers)
    /\ t' = 1 /\ r' = r + 1 /\ pc' = "regions"
    /\ UNCHANGED <<given, eff_period, requests, nat_rows_all, rows, all_rows, csv, stderr>>

\* collect_profile returns scan_rows; main extends all_rows and writes
MqWriteCsv ==
    /\ script = "amazon_mq_finops" /\ pc = "regions"
    /\ r > Len(inventory)
    /\ all_rows' = all_rows \o rows /\ csv' = all_rows \o rows
    /\ rows' = <<>> /\ pc' = "done"
    /\ UNCHANGED <<given, eff_period, requests, nat_rows_all, r, t, stderr>>

NextMq ==
    \/ MqListBrokersFails \/ MqListBrokers \/ MqBrokerRow
    \/ MqListMetricsRaises \/ MqRegionDone \/ MqWriteCsv


MaxBrokers == 2

MetricTel(dims, average, maximum) ==
    [dims |-> dims, Average |-> average, Maximum |-> maximum]

\* nothing published for the metric, and a fetch that is denied
NoSeries == MetricTel(TRUE, Src(<<>>), Src(<<>>))

Denied == MetricTel(TRUE, ErrSrc, ErrSrc)

Undiscovered == MetricTel(FALSE, Src(<<>>), Src(<<>>))

BrokerTel(cpu, conn, m1, m2) == [cpu |-> cpu, conn |-> conn, m1 |-> m1, m2 |-> m2]

\* 5-minute datapoints over the default 14 days
BrokerTels ==
    { BrokerTel(MetricTel(TRUE, Src(RL(30, 4000) \o RL(50, 32)), Src(RL(60, 4032))),
                MetricTel(TRUE, Src(RL(4, 4032)), Src(RL(6, 4032))),
                MetricTel(TRUE, Src(RL(10, 4032)), Src(RL(10, 4032))),
                MetricTel(FALSE, Src(RL(5, 4032)), Src(RL(5, 4032)))),
      BrokerTel(MetricTel(TRUE, Src(RL(1, 4000) \o RL(2, 32)), Src(RL(3, 4032))),
                MetricTel(TRUE, Src(RL(0, 4032)), Src(RL(0, 4032))),
                MetricTel(TRUE, Src(RL(0, 4032)), Src(RL(0, 4032))),
                MetricTel(TRUE, Src(RL(0, 4032)), Src(RL(0, 4032)))),
      BrokerTel(NoSeries, NoSeries, NoSeries, NoSeries),
      BrokerTel(Denied, Denied, Denied, Denied),
      BrokerTel(Undiscovered, Undiscovered, Undiscovered, Undiscovered),
      BrokerTel(MetricTel(TRUE, Src(<<>>), Src(RL(40, 12))),
                NoSeries, NoSeries, NoSeries),
      BrokerTel(MetricTel(TRUE, Src(RL(40, 12)), Src(RL(40, 12))),
                NoSeries, NoSeries, NoSeries),
      BrokerTel(MetricTel(TRUE, Src(RL(30, 4032)), Src(RL(60, 4032))),
                Denied, NoSeries, NoSeries) }

Hosts == { [family |-> "t3", size |-> "micro"], [family |-> "m5", size |-> "large"] }

Broker(id, host, tel) ==
    [BrokerId |-> id, host |-> host, deployment_mode |-> "SINGLE_INSTANCE",
     logs_enabled |-> TRUE, logs_retention_days |-> 14, backup_count |-> 1,
     list_metrics_ok |-> TRUE, tel |-> tel]

BrokerIds == <<"b-1", "b-2", "b-3", "b-4">>

\* every host with every telemetry, and one broker whose list_metrics fails
BrokerKinds ==
    { Broker("b", k.host, k.tel) : k \in [host : Hosts, tel : BrokerTels] }
    \cup { [Broker("b", [family |-> "t3", size |-> "micro"],
                   BrokerTel(NoSeries, NoSeries, NoSeries, NoSeries))
            EXCEPT !.list_metrics_ok = FALSE] }

BrokerLists ==
    UNION { { [i \in 1..n |-> [k[i] EXCEPT !.BrokerId = BrokerIds[i]]] :
              k \in [1..n -> BrokerKinds] } :
            n \in 0..MaxBrokers }

MqRegion(name, list_ok, brokers) ==
    [region |-> name, list_ok |-> list_ok, flowlogs_enabled |-> TRUE,
     brokers |-> brokers]

\* --profiles p1 --regions us-east-1,eu-west-1 with the default 14 days, 300 s
InitMq ==
    /\ script = "amazon_mq_finops"
    /\ args = [days |-> 14, period |-> 300] /\ eff_period = 840
    /\ \E bl \in BrokerLists, ok2 \in BOOLEAN :
          inventory = << MqRegion("us-east-1", TRUE, bl),
                         MqRegion("eu-west-1", ok2,
                                  IF ok2
                                  THEN <<Broker("b-9", [family |-> "t3", size |-> "micro"],
                                                BrokerTel(NoSeries, NoSeries,
                                                          NoSeries, NoSeries))>>
                                  ELSE <<>>) >>
    /\ InitRun


---------------------------------------------------------------------------
(* ec2_utilization: main, the instance loop and collect_nat_gateways *)

\* mean(xs): 0.0 for an empty list
mean(xs) == IF xs = <<>> THEN RInt(0) ELSE Rat(RLSum(xs), RLLen(xs))

\* Python's round() of the exact quotient a / b: ties go to the even integer
RoundHalfEven(a, b) ==
    LET q == a \div b
        rem2 == 2 * (a % b)
    IN  IF rem2 < b THEN q
        ELSE IF rem2 > b THEN q + 1
        ELSE IF q % 2 = 0 THEN q ELSE q + 1

\* p95(xs): the value at index int(round(0.95 * (n - 1))), 0.0 if empty
p95(xs) ==
    IF xs = <<>> THEN 0
    ELSE RLSortedAt(xs, RoundHalfEven(95 * (RLLen(xs) - 1), 100))

categorize(cpu_avg, cpu_p95_, net_mb_per_day) ==
    IF RLe(RInt(40), cpu_avg) \/ cpu_p95_ >= 70 THEN "High Utilization"
    ELSE IF RLt(cpu_avg, RInt(10)) /\ RLt(RInt(5 * 1024), net_mb_per_day)
         THEN "Network-Heavy"
    ELSE IF RLt(cpu_avg, RInt(5)) /\ RLt(net_mb_per_day, RInt(200))
         THEN "Idle / Over-Provisioned"
    ELSE "Moderate"

RECURSIVE SeqSum(_)
SeqSum(q) == IF q = <<>> THEN 0 ELSE Head(q) + SeqSum(Tail(q))

\* fetch_network_daily_mb: the daily NetworkIn / NetworkOut sums (here in
\* MiB, the code divides the byte sums by 1024 * 1024) per common day
fetch_network_daily_mb(net) ==
    LET days == Min2(Len(net.in_vals), Len(net.out_vals))
    IN  IF days = 0 THEN RInt(0)
        ELSE Rat(SeqSum(SubSeq(net.in_vals, 1, days))
                   + SeqSum(SubSeq(net.out_vals, 1, days)), days)

\* the row main builds for one running instance; a ClientError of a fetch
\* leaves cpu_points = [] or net_mb_day = 0.0
instance_row(region, inst) ==
    LET cpu_points == IF inst.cpu.err THEN <<>> ELSE inst.cpu.dps
        cpu_avg == mean(cpu_points)
        cpu_p95_ == p95(cpu_points)
        net_mb_day == IF inst.net.err THEN RInt(0)
                      ELSE fetch_network_daily_mb(inst.net.dps)
    IN  [region |-> region, instance_id |-> inst.InstanceId,
         cpu_avg_pct |-> cpu_avg, cpu_p95_pct |-> cpu_p95_,
         net_mb_per_day |-> net_mb_day,
         category |-> categorize(cpu_avg, cpu_p95_, net_mb_day)]

\* fetch_nat_metrics: one call for both metrics; bytes out in GiB
fetch_nat_metrics(m) ==
    [gib |-> SeqSum(m.bytes_out), avg_conns |-> mean(m.conns)]

\* the row collect_nat_gateways builds; a ClientError gives 0.0, 0.0
nat_row(region, ngw) ==
    LET got == IF ngw.metrics.err THEN [gib |-> 0, avg_conns |-> RInt(0)]
               ELSE fetch_nat_metrics(ngw.metrics.dps)
        status == IF got.gib > 0 \/ RLt(RInt(0), got.avg_conns)
                  THEN "Active" ELSE "Idle"
    IN  [region |-> region, nat_gateway_id |-> ngw.NatGatewayId,
         bytes_out_window_gib |-> got.gib, avg_active_conns |-> got.avg_conns,
         status |-> status,
         recommended_action |->
             IF status = "Idle" THEN "remove_if_unused" ELSE ""]

cur_instance == inventory[r].instances[t]

\* describe_instances raises ClientError: logged, running_instances = []
Ec2ListInstancesFails ==
    /\ script = "ec2_utilization" /\ pc = "regions"
    /\ r <= Len(inventory) /\ ~cur_region.list_ok
    /\ stderr' = Append(stderr, Skip("describe_instances", cur_region.region, ""))
    /\ t' = 1 /\ pc' = "nat"
    /\ UNCHANGED <<given, eff_period, requests, nat_rows_all, r, rows, all_rows, csv>>

Ec2ListInstances ==
    /\ script = "ec2_utilization" /\ pc = "regions"
    /\ r <= Len(inventory) /\ cur_region.list_ok
    /\ t' = 1 /\ pc' = "instances"
    /\ UNCHANGED <<given, eff_period, requests, nat_rows_all, r, rows, all_rows, csv, stderr>>

\* one running instance: each failed fetch is logged, the row is appended
Ec2InstanceRow ==
    /\ script = "ec2_utilization" /\ pc = "instances"
    /\ t <= Len(cur_region.instances)
    /\ all_rows' = Append(all_rows, instance_row(cur_region.region, cur_instance))
    /\ stderr' = stderr
         \o (IF cur_instance.cpu.err
             THEN <<Skip("CPUUtilization", cur_region.region,
                         cur_instance.InstanceId)>> ELSE <<>>)
         \o (IF cur_instance.net.err
             THEN <<Skip("NetworkIn/Out", cur_region.region,
                         cur_instance.InstanceId)>> ELSE <<>>)
    /\ t' = t + 1
    /\ UNCHANGED <<given, eff_period, requests, nat_rows_all, r, rows, csv, pc>>

Ec2InstancesDone ==
    /\ script = "ec2_utilization" /\ pc = "instances"
    /\ t > Len(cur_region.instances)
    /\ t' = 1 /\ pc' = "nat"
    /\ UNCHANGED <<given, eff_period, requests, nat_rows_all, r, rows, all_rows, csv, stderr>>

\* collect_nat_gateways: the describe_nat_gateways paginator raises
Ec2NatCollectionFails ==
    /\ script = "ec2_utilization" /\ pc = "nat"
    /\ ~cur_region.nat_ok
    /\ stderr' = Append(stderr, Skip("NAT collection", cur_region.region, ""))
    /\ r' = r + 1 /\ pc' = "regions"
    /\ UNCHANGED <<given, eff_period, requests, nat_rows_all, t, rows, all_rows, csv>>

\* collect_nat_gateways: one row per gateway, then nat_rows_all.extend
Ec2NatRows ==
    /\ script = "ec2_utilization" /\ pc = "nat"
    /\ cur_region.nat_ok
    /\ nat_rows_all' = nat_rows_all
         \o [i \in 1..Len(cur_region.nats) |->
                nat_row(cur_region.region, cur_region.nats[i])]
    /\ stderr' = stderr
         \o SelectSeq([i \in 1..Len(cur_region.nats) |->
                          Skip(IF cur_region.nats[i].metrics.err
                               THEN "NAT metrics" ELSE "",
                               cur_region.region,
                               cur_region.nats[i].NatGatewayId)],
                      LAMBDA e : e.what = "NAT metrics")
    /\ r' = r + 1 /\ pc' = "regions"
    /\ UNCHANGED <<given, eff_period, requests, t, rows, all_rows, csv>>

\* main: ec2_all_profiles.csv and nat_gateways.csv
Ec2WriteCsv ==
    /\ script = "ec2_utilization" /\ pc = "regions"
    /\ r > Len(inventory)
    /\ csv' = all_rows \o nat_rows_all /\ pc' = "done"
    /\ UNCHANGED <<given, eff_period, requests, nat_rows_all, r, t, rows, all_rows, stderr>>

NextEc2 ==
    \/ Ec2ListInstancesFails \/ Ec2ListInstances \/ Ec2InstanceRow
    \/ Ec2InstancesDone \/ Ec2NatCollectionFails \/ Ec2NatRows \/ Ec2WriteCsv

MaxInstances == 2

MaxNats == 1

Net(in_vals, out_vals) == [in_vals |-> in_vals, out_vals |-> out_vals]

Instance(id, cpu, net) == [InstanceId |-> id, cpu |-> cpu, net |-> net]

\* 5-minute CPU points and daily network sums over the default 14 days
InstanceKinds ==
    { Instance("i", Src(RL(50, 4000) \o RL(65, 32)), Src(Net(<<300, 300>>, <<200, 200>>))),
      Instance("i", Src(RL(85, 4032)), Src(Net(<<300, 300>>, <<200, 200>>))),
      Instance("i", Src(RL(2, 4000) \o RL(6, 32)), Src(Net(<<10, 10>>, <<5, 5>>))),
      Instance("i", Src(<<>>), Src(Net(<<>>, <<>>))),
      Instance("i", ErrSrc, ErrSrc),
      Instance("i", ErrSrc, Src(Net(<<4000, 4000>>, <<3000>>))) }

InstanceIds == <<"i-1", "i-2", "i-3", "i-4">>

InstanceLists ==
    UNION { { [i \in 1..n |-> [k[i] EXCEPT !.InstanceId = InstanceIds[i]]] :
              k \in [1..n -> InstanceKinds] } : n \in 0..MaxInstances }

NatMetrics(bytes_out, conns) == [bytes_out |-> bytes_out, conns |-> conns]

NatGateway(id, metrics) == [NatGatewayId |-> id, metrics |-> metrics]

NatKinds ==
    { NatGateway("n", Src(NatMetrics(<<3, 4>>, RL(12, 336)))),
      NatGateway("n", Src(NatMetrics(<<0, 0>>, RL(0, 336)))),
      NatGateway("n", Src(NatMetrics(<<>>, <<>>))),
      NatGateway("n", ErrSrc) }

NatIds == <<"nat-1", "nat-2", "nat-3">>

NatLists ==
    UNION { { [i \in 1..n |-> [k[i] EXCEPT !.NatGatewayId = NatIds[i]]] :
              k \in [1..n -> NatKinds] } : n \in 0..MaxNats }

Ec2Region(name, list_ok, instances, nat_ok, nats) ==
    [region |-> name, list_ok |-> list_ok, instances |-> instances,
     nat_ok |-> nat_ok, nats |-> nats]

Ec2Regions ==
    { Ec2Region("us-east-1", TRUE, il, TRUE, nl) :
        il \in InstanceLists, nl \in NatLists }
    \cup { Ec2Region("us-east-1", FALSE, <<>>, TRUE, nl) : nl \in NatLists }
    \cup { Ec2Region("us-east-1", TRUE, il, FALSE, <<>>) : il \in InstanceLists }

\* --profiles p1 --regions us-east-1 --skip-ebs --skip-snapshots --skip-eips
InitEc2 ==
    /\ script = "ec2_utilization"
    /\ args = [days |-> 14, period |-> 300] /\ eff_period = 300
    /\ \E reg \in Ec2Regions : inventory = <<reg>>
    /\ InitRun

\* the runs that hand out idle / remove / downsize verdicts
SpecVerdicts == (InitMq \/ InitEc2) /\ [][NextMq \/ NextEc2]_vars


---------------------------------------------------------------------------
(* The period sent to the Telemetry Source: rds_rightsizing,               *)
(* ecs_rightsizing, amazon_mq_finops and s3_cost_analysis                   *)

\* rds_rightsizing: ceil(days * 86400 / 1440), rounded up to a multiple of 60
rds_min_period_for_days(days) ==
    LET total_seconds == days * 86400
        raw == (total_seconds + 1440 - 1) \div 1440
    IN  IF raw % 60 # 0 THEN ((raw + 59) \div 60) * 60 ELSE raw

rds_effective_period(days, requested) ==
    Max2(requested, rds_min_period_for_days(days))

ecs_min_period_for_days(days) ==
    LET total_seconds == days * 86400
        raw == (total_seconds + 1440 - 1) \div 1440
    IN  IF raw % 60 # 0 THEN ((raw + 59) \div 60) * 60 ELSE raw

ecs_effective_period(days, requested) ==
    Max2(requested, ecs_min_period_for_days(days))

mq_effective_period_mut_sum(days, requested) ==
    LET total_seconds == days * 86400
        raw == (total_seconds + 1440 - 1) \div 1440
        rounded == IF raw % 60 # 0 THEN ((raw + 59) \div 60) * 60 ELSE raw
    IN  requested + rounded

mq_effective_period(days, requested) ==
    LET total_seconds == days * 86400
        raw == (total_seconds + 1440 - 1) \div 1440
        rounded == IF raw % 60 # 0 THEN ((raw + 59) \div 60) * 60 ELSE raw
    IN  Max2(requested, rounded)

\* s3_cost_analysis main: effective_period = max(args.period, 86400)
s3_effective_period(period) == Max2(period, 86400)

\* window(days): end - start, in seconds
window(days) == days * 86400

Request(seconds, period) == [seconds |-> seconds, Period |-> period]

RdsMain ==
    /\ script = "rds_rightsizing" /\ pc = "main"
    /\ eff_period' = rds_effective_period(args.days, args.period)
    /\ pc' = "collect"
    /\ UNCHANGED <<given, requests, nat_rows_all, r, t, rows, all_rows, csv, stderr>>

\* collect_profile: window(days), every safe_series call with `period`
RdsCollect ==
    /\ script = "rds_rightsizing" /\ pc = "collect"
    /\ requests' = Append(requests, Request(window(args.days), eff_period))
    /\ pc' = "fetched"
    /\ UNCHANGED <<given, eff_period, nat_rows_all, r, t, rows, all_rows, csv, stderr>>

EcsMain ==
    /\ script = "ecs_rightsizing" /\ pc = "main"
    /\ eff_period' = ecs_effective_period(args.days, args.period)
    /\ pc' = "collect"
    /\ UNCHANGED <<given, requests, nat_rows_all, r, t, rows, all_rows, csv, stderr>>

EcsCollect ==
    /\ script = "ecs_rightsizing" /\ pc = "collect"
    /\ requests' = Append(requests, Request(window(args.days), eff_period))
    /\ pc' = "fetched"
    /\ UNCHANGED <<given, eff_period, nat_rows_all, r, t, rows, all_rows, csv, stderr>>

MqMain ==
    /\ script = "amazon_mq_finops" /\ pc = "main"
    /\ eff_period' = mq_effective_period(args.days, args.period)
    /\ pc' = "collect"
    /\ UNCHANGED <<given, requests, nat_rows_all, r, t, rows, all_rows, csv, stderr>>

\* collect_profile applies effective_period once more, per broker
MqCollect ==
    /\ script = "amazon_mq_finops" /\ pc = "collect"
    /\ requests' = Append(requests,
                          Request(window(args.days),
                                  mq_effective_period(args.days, eff_period)))
    /\ pc' = "fetched"
    /\ UNCHANGED <<given, eff_period, nat_rows_all, r, t, rows, all_rows, csv, stderr>>

S3Main ==
    /\ script = "s3_cost_analysis" /\ pc = "main"
    /\ eff_period' = s3_effective_period(args.period)
    /\ pc' = "collect"
    /\ UNCHANGED <<given, requests, nat_rows_all, r, t, rows, all_rows, csv, stderr>>

\* collect_profile: window(days + 1), a buffer day for the daily metrics
S3Collect ==
    /\ script = "s3_cost_analysis" /\ pc = "collect"
    /\ requests' = Append(requests, Request(window(args.days + 1), eff_period))
    /\ pc' = "fetched"
    /\ UNCHANGED <<given, eff_period, nat_rows_all, r, t, rows, all_rows, csv, stderr>>

NextPeriod ==
    \/ RdsMain \/ RdsCollect \/ EcsMain \/ EcsCollect
    \/ MqMain \/ MqCollect \/ S3Main \/ S3Collect

MaxDays == 3

\* --days: the first few, the defaults, and those around 1440
Days == (1..MaxDays) \cup {14, 30, 1439, 1440, 1441}

\* --period: below, at and off the multiples of 60, up to more than a day
Requested == {1, 59, 60, 61, 90, 300, 840, 3600, 86400, 90000}

PeriodScripts ==
    {"rds_rightsizing", "ecs_rightsizing", "amazon_mq_finops", "s3_cost_analysis"}

InitPeriod ==
    /\ script \in PeriodScripts
    /\ \E days \in Days, period \in Requested :
          args = [days |-> days, period |-> period]
    /\ eff_period = 0 /\ inventory = <<>>
    /\ r = 1 /\ t = 1 /\ rows = <<>> /\ all_rows = <<>> /\ nat_rows_all = <<>>
    /\ requests = <<>> /\ csv = <<>> /\ stderr = <<>> /\ pc = "main"

SpecPeriod == InitPeriod /\ [][NextPeriod]_vars


---------------------------------------------------------------------------
(* ecs_rightsizing: collect_service_row, collect_profile and main *)

CI_NS == "ECS/ContainerInsights"

ECS_NS == "AWS/ECS"

\* safe_series: a ClientError or any other exception is logged and gives []
ecs_safe_series(src) == IF src.err THEN <<>> ELSE get_metric_series(src)

\* one get_metric_series call, as the Telemetry Source sees it
Fetch(ns, metric, cluster, service) ==
    [ns |-> ns, metric |-> metric, cluster |-> cluster, service |-> service]

summarize_ci_metric(svc, metric) == summarize(ecs_safe_series(svc.ci[metric]))

summarize_ecs_service_metric(svc, metric) ==
    summarize(ecs_safe_series(svc.ecs[metric]))

fallback_wanted_mut_always(avg) == TRUE

\* `if cpu_avg is None:` / `if mem_avg is None:`
fallback_wanted(avg) == IsNone(avg)

\* cluster_level_utilization: four AWS/ECS cluster metrics
cluster_level_utilization(cl) ==
    [cluster_cpu_util_avg |-> summarize(ecs_safe_series(cl.util["CPUUtilization"])).avg,
     cluster_cpu_resv_avg |-> summarize(ecs_safe_series(cl.util["CPUReservation"])).avg,
     cluster_mem_util_avg |-> summarize(ecs_safe_series(cl.util["MemoryUtilization"])).avg,
     cluster_mem_resv_avg |-> summarize(ecs_safe_series(cl.util["MemoryReservation"])).avg]

cluster_level_fetches(cl) ==
    << Fetch(ECS_NS, "CPUUtilization", cl.cluster_name, ""),
       Fetch(ECS_NS, "CPUReservation", cl.cluster_name, ""),
       Fetch(ECS_NS, "MemoryUtilization", cl.cluster_name, ""),
       Fetch(ECS_NS, "MemoryReservation", cl.cluster_name, "") >>

\* collect_service_row: ContainerInsights first, then AWS/ECS for CPU and for
\* memory if the first gave None (the configuration, task and autoscaling
\* columns are left out)
collect_service_row(region, cl, svc) ==
    LET ci_cpu == summarize_ci_metric(svc, "CPUUtilization")
        ci_mem == summarize_ci_metric(svc, "MemoryUtilization")
        net_rx == summarize_ci_metric(svc, "NetworkRxBytes")
        net_tx == summarize_ci_metric(svc, "NetworkTxBytes")
        cpu == IF fallback_wanted(ci_cpu.avg)
               THEN summarize_ecs_service_metric(svc, "CPUUtilization")
               ELSE ci_cpu
        mem == IF fallback_wanted(ci_mem.avg)
               THEN summarize_ecs_service_metric(svc, "MemoryUtilization")
               ELSE ci_mem
    IN  [region |-> region, cluster_name |-> cl.cluster_name,
         service_name |-> svc.serviceName,
         cpu_util_avg_pct |-> cpu.avg, cpu_util_p95_pct |-> cpu.p95,
         mem_util_avg_pct |-> mem.avg, mem_util_p95_pct |-> mem.p95,
         net_rx_bytes_avg_per_period |-> net_rx.avg,
         net_tx_bytes_avg_per_period |-> net_tx.avg,
         cluster_cpu_util_avg |-> None, cluster_cpu_resv_avg |-> None,
         cluster_mem_util_avg |-> None, cluster_mem_resv_avg |-> None,
         signals_low_cpu |-> ~IsNone(cpu.avg) /\ RLt(cpu.avg, RInt(30)),
         signals_low_mem |-> ~IsNone(mem.avg) /\ RLt(mem.avg, RInt(40))]

\* the fetches collect_service_row makes, in the order it makes them
service_fetches(cl, svc) ==
    << Fetch(CI_NS, "CPUUtilization", cl.cluster_name, svc.serviceName),
       Fetch(CI_NS, "MemoryUtilization", cl.cluster_name, svc.serviceName),
       Fetch(CI_NS, "NetworkRxBytes", cl.cluster_name, svc.serviceName),
       Fetch(CI_NS, "NetworkTxBytes", cl.cluster_name, svc.serviceName) >>
    \o (IF fallback_wanted(summarize_ci_metric(svc, "CPUUtilization").avg)
        THEN <<Fetch(ECS_NS, "CPUUtilization", cl.cluster_name, svc.serviceName)>>
        ELSE <<>>)
    \o (IF fallback_wanted(summarize_ci_metric(svc, "MemoryUtilization").avg)
        THEN <<Fetch(ECS_NS, "MemoryUtilization", cl.cluster_name, svc.serviceName)>>
        ELSE <<>>)

fetch_cluster_util_mut_always(bare, have_cl_util) == bare

\* `(row[cpu] is None and row[mem] is None) and cl_util is None`
fetch_cluster_util(bare, have_cl_util) == bare /\ ~have_cl_util

\* the loop over svc_desc in collect_profile: a row for each service; the
\* cluster-level figures are fetched once, for the first service without CPU
\* and memory figures, and attached to every such service
RECURSIVE service_rows(_, _, _, _)
service_rows(region, cl, i, have_cl_util) ==
    IF i > Len(cl.services) THEN [rows |-> <<>>, fetches |-> <<>>]
    ELSE LET svc == cl.services[i]
             row == collect_service_row(region, cl, svc)
             bare == IsNone(row.cpu_util_avg_pct) /\ IsNone(row.mem_util_avg_pct)
             fetch_now == fetch_cluster_util(bare, have_cl_util)
             cl_util == cluster_level_utilization(cl)
             filled == IF bare
                       THEN [row EXCEPT
                               !.cluster_cpu_util_avg = cl_util.cluster_cpu_util_avg,
                               !.cluster_cpu_resv_avg = cl_util.cluster_cpu_resv_avg,
                               !.cluster_mem_util_avg = cl_util.cluster_mem_util_avg,
                               !.cluster_mem_resv_avg = cl_util.cluster_mem_resv_avg]
                       ELSE row
             rest == service_rows(region, cl, i + 1, have_cl_util \/ fetch_now)
         IN  [rows |-> <<filled>> \o rest.rows,
              fetches |-> service_fetches(cl, svc)
                          \o (IF fetch_now THEN cluster_level_fetches(cl) ELSE <<>>)
                          \o rest.fetches]

\* the row of a cluster without services
cluster_row(region, cl) ==
    LET cl_util == cluster_level_utilization(cl)
    IN  [region |-> region, cluster_name |-> cl.cluster_name,
         service_name |-> "",
         cluster_cpu_util_avg |-> cl_util.cluster_cpu_util_avg,
         cluster_cpu_resv_avg |-> cl_util.cluster_cpu_resv_avg,
         cluster_mem_util_avg |-> cl_util.cluster_mem_util_avg,
         cluster_mem_resv_avg |-> cl_util.cluster_mem_resv_avg]

cur_cluster == inventory[r].clusters[t]

on_client_error_mut_rollback(rows_so_far, region) ==
    SelectSeq(rows_so_far, LAMBDA row : row.region # region)

\* `except ClientError as e: print(...); continue`: the handler logs and goes
\* to the next region; it does not touch rows
on_client_error(rows_so_far, region) == rows_so_far

\* list_clusters_arns raises ClientError: the region's except logs it, next
\* region
EcsListClustersFails ==
    /\ script = "ecs_rightsizing" /\ pc = "regions"
    /\ r <= Len(inventory) /\ ~cur_region.list_ok
    /\ stderr' = Append(stderr, Skip("skipping due to error", cur_region.region, ""))
    /\ rows' = on_client_error(rows, cur_region.region)
    /\ r' = r + 1
    /\ UNCHANGED <<given, eff_period, requests, nat_rows_all, t, all_rows, csv, pc>>

\* `if not cluster_arns: ... continue`
EcsNoClusters ==
    /\ script = "ecs_rightsizing" /\ pc = "regions"
    /\ r <= Len(inventory) /\ cur_region.list_ok /\ cur_region.clusters = <<>>
    /\ stderr' = Append(stderr, Skip("no ECS clusters", cur_region.region, ""))
    /\ r' = r + 1
    /\ UNCHANGED <<given, eff_period, requests, nat_rows_all, t, rows, all_rows, csv, pc>>

EcsListClusters ==
    /\ script = "ecs_rightsizing" /\ pc = "regions"
    /\ r <= Len(inventory) /\ cur_region.list_ok /\ cur_region.clusters # <<>>
    /\ t' = 1 /\ pc' = "clusters"
    /\ UNCHANGED <<given, eff_period, requests, nat_rows_all, r, rows, all_rows, csv, stderr>>

\* list_services_arns raises ClientError for one cluster: the try around the
\* whole region catches it, logs it and goes to the next region
EcsListServicesFails ==
    /\ script = "ecs_rightsizing" /\ pc = "clusters"
    /\ t <= Len(cur_region.clusters) /\ ~cur_cluster.services_ok
    /\ stderr' = Append(stderr, Skip("skipping due to error", cur_region.region,
                                     cur_cluster.cluster_name))
    /\ rows' = on_client_error(rows, cur_region.region)
    /\ t' = 1 /\ r' = r + 1 /\ pc' = "regions"
    /\ UNCHANGED <<given, eff_period, requests, nat_rows_all, all_rows, csv>>

\* a cluster without services: one cluster row
EcsClusterRow ==
    /\ script = "ecs_rightsizing" /\ pc = "clusters"
    /\ t <= Len(cur_region.clusters) /\ cur_cluster.services_ok
    /\ cur_cluster.services = <<>>
    /\ rows' = Append(rows, cluster_row(cur_region.region, cur_cluster))
    /\ requests' = requests \o cluster_level_fetches(cur_cluster)
    /\ t' = t + 1
    /\ UNCHANGED <<given, eff_period, nat_rows_all, r, all_rows, csv, stderr, pc>>

\* describe_services_safe drops a batch whose describe_services raises
\* ClientError, without a message: no service of the cluster is processed
EcsDescribeServicesFails ==
    /\ script = "ecs_rightsizing" /\ pc = "clusters"
    /\ t <= Len(cur_region.clusters) /\ cur_cluster.services_ok
    /\ cur_cluster.services # <<>> /\ ~cur_cluster.describe_ok
    /\ t' = t + 1
    /\ UNCHANGED <<given, eff_period, requests, nat_rows_all, r, rows, all_rows, csv, stderr, pc>>

\* a cluster with services: one row for each service
EcsServiceRows ==
    /\ script = "ecs_rightsizing" /\ pc = "clusters"
    /\ t <= Len(cur_region.clusters) /\ cur_cluster.services_ok
    /\ cur_cluster.services # <<>> /\ cur_cluster.describe_ok
    /\ rows' = rows \o service_rows(cur_region.region, cur_cluster, 1, FALSE).rows
    /\ requests' = requests
                   \o service_rows(cur_region.region, cur_cluster, 1, FALSE).fetches
    /\ t' = t + 1
    /\ UNCHANGED <<given, eff_period, nat_rows_all, r, all_rows, csv, stderr, pc>>

EcsRegionDone ==
    /\ script = "ecs_rightsizing" /\ pc = "clusters"
    /\ t > Len(cur_region.clusters)
    /\ t' = 1 /\ r' = r + 1 /\ pc' = "regions"
    /\ UNCHANGED <<given, eff_period, requests, nat_rows_all, rows, all_rows, csv, stderr>>

\* collect_profile returns rows; main extends all_rows and writes the CSVs
EcsWriteCsv ==
    /\ script = "ecs_rightsizing" /\ pc = "regions"
    /\ r > Len(inventory)
    /\ all_rows' = all_rows \o rows /\ csv' = all_rows \o rows
    /\ rows' = <<>> /\ pc' = "done"
    /\ UNCHANGED <<given, eff_period, requests, nat_rows_all, r, t, stderr>>

NextEcs ==
    \/ EcsListClustersFails \/ EcsNoClusters \/ EcsListClusters
    \/ EcsListServicesFails \/ EcsClusterRow \/ EcsDescribeServicesFails
    \/ EcsServiceRows \/ EcsRegionDone \/ EcsWriteCsv

MaxClusters == 2

MaxServices == 2

Service(name, ci_cpu, ci_mem, ci_net, ecs_cpu, ecs_mem) ==
    [serviceName |-> name,
     ci |-> [mt \in {"CPUUtilization", "MemoryUtilization",
                     "NetworkRxBytes", "NetworkTxBytes"} |->
                CASE mt = "CPUUtilization" -> ci_cpu
                  [] mt = "MemoryUtilization" -> ci_mem
                  [] OTHER -> ci_net],
     ecs |-> [mt \in {"CPUUtilization", "MemoryUtilization"} |->
                IF mt = "CPUUtilization" THEN ecs_cpu ELSE ecs_mem]]

\* 14 days of 840-second datapoints: ContainerInsights on; off, with AWS/ECS
\* figures; CPU from ContainerInsights and memory from AWS/ECS only;
\* ContainerInsights on without network metrics, with the AWS/ECS figures;
\* ContainerInsights denied and nothing in AWS/ECS; nothing anywhere
ServiceKinds ==
    { Service("s", Src(RL(20, 1440)), Src(RL(35, 1440)), Src(RL(900, 1440)),
              Src(RL(55, 1440)), Src(RL(65, 1440))),
      Service("s", Src(<<>>), Src(<<>>), Src(<<>>),
              Src(RL(55, 1440)), Src(RL(65, 1440))),
      Service("s", Src(RL(20, 1440)), Src(<<>>), Src(RL(900, 1440)),
              Src(RL(55, 1440)), Src(RL(65, 1440))),
      Service("s", Src(RL(55, 1440)), Src(RL(65, 1440)), Src(<<>>),
              Src(RL(55, 1440)), Src(RL(65, 1440))),
      Service("s", ErrSrc, ErrSrc, ErrSrc, Src(<<>>), Src(<<>>)),
      Service("s", Src(<<>>), Src(<<>>), Src(<<>>), Src(<<>>), Src(<<>>)) }

ServiceNames == <<"s1", "s2", "s3", "s4">>

ServiceLists ==
    UNION { { [i \in 1..n |-> [k[i] EXCEPT !.serviceName = ServiceNames[i]]] :
              k \in [1..n -> ServiceKinds] } : n \in 0..MaxServices }

Cluster(name, services_ok, describe_ok, services) ==
    [cluster_name |-> name, services_ok |-> services_ok,
     describe_ok |-> describe_ok, services |-> services,
     util |-> [mt \in {"CPUUtilization", "CPUReservation",
                       "MemoryUtilization", "MemoryReservation"} |->
                 Src(RL(40, 1440))]]

ClusterKinds ==
    { Cluster("c", TRUE, TRUE, svcs) : svcs \in ServiceLists }
    \cup { Cluster("c", FALSE, TRUE, <<>>),
           Cluster("c", TRUE, FALSE,
                   <<Service("s1", Src(RL(20, 1440)), Src(RL(35, 1440)),
                             Src(RL(900, 1440)), Src(RL(55, 1440)),
                             Src(RL(65, 1440)))>>) }

ClusterNames == <<"c1", "c2", "c3", "c4">>

ClusterLists ==
    UNION { { [i \in 1..n |-> [k[i] EXCEPT !.cluster_name = ClusterNames[i]]] :
              k \in [1..n -> ClusterKinds] } : n \in 0..MaxClusters }

EcsRegion(name, list_ok, clusters) ==
    [region |-> name, list_ok |-> list_ok, clusters |-> clusters]

\* --profiles p1 --regions us-east-1,eu-west-1 with the default 14 days, 300 s
InitEcs ==
    /\ script = "ecs_rightsizing"
    /\ args = [days |-> 14, period |-> 300] /\ eff_period = 840
    /\ \E cls \in ClusterLists, ok1 \in BOOLEAN, ok2 \in BOOLEAN :
          inventory = << EcsRegion("us-east-1", ok1, IF ok1 THEN cls ELSE <<>>),
                         EcsRegion("eu-west-1", ok2,
                                   IF ok2
                                   THEN <<Cluster("c9", TRUE, TRUE,
                                            <<Service("s9", Src(RL(20, 1440)),
                                                Src(RL(35, 1440)), Src(RL(900, 1440)),
                                                Src(RL(55, 1440)), Src(RL(65, 1440)))>>)>>
                                   ELSE <<>>) >>
    /\ InitRun


\* the DynamoDB and the EC2 runs as processes: main is one sequential thread,
\* so a step that can be taken is taken
SpecRunsFair ==
    /\ (InitDdbRegions \/ InitEc2) /\ [][NextDdb \/ NextEc2]_vars
    /\ WF_vars(NextDdb \/ NextEc2)

\* the ECS and the Amazon MQ reviews, each over two regions
SpecServices == (InitEcs \/ InitMq) /\ [][NextEcs \/ NextMq]_vars


---------------------------------------------------------------------------
(* ce_all_accounts: call_ce_with_retry *)

RateLimitCodes == {"Throttling", "ThrottlingException", "TooManyRequestsException"}

should_retry_mut_any(code, attempt, max_attempts) == attempt < max_attempts

should_retry_mut_le(code, attempt, max_attempts) ==
    code \in RateLimitCodes /\ attempt <= max_attempts

\* `code in ("Throttling", ...) and attempt < max_attempts`
should_retry(code, attempt, max_attempts) ==
    code \in RateLimitCodes /\ attempt < max_attempts

next_backoff_mut_uncapped(backoff) == backoff * 2

\* `backoff = min(backoff*2, 8.0)`
next_backoff(backoff) == Min2(backoff * 2, 8)

\* one ce.get_cost_and_usage call and how it ended
CeCall(attempt, outcome) == [attempt |-> attempt, outcome |-> outcome]

\* what call_ce_with_retry gave its caller: the response of a call, or the
\* ClientError of a call
CeResult(kind, code, attempt) == [kind |-> kind, code |-> code, attempt |-> attempt]

\* the largest max_attempts of a run; 6 is the default, which every caller uses
MaxAttempts == 6

\* the outcomes of one call: a response, or a ClientError with this code
Outcomes ==
    {"ok"} \cup RateLimitCodes \cup {"AccessDeniedException", "ValidationException"}

\* attempt += 1; the call returns a response: return it
CeCallReturns ==
    /\ pc = "call"
    /\ t' = t + 1
    /\ requests' = Append(requests, CeCall(t + 1, "ok"))
    /\ rows' = <<CeResult("returned", "ok", t + 1)>>
    /\ pc' = "returned"
    /\ UNCHANGED <<given, eff_period, nat_rows_all, r, all_rows, csv, stderr>>

\* attempt += 1; the call is rate-limited and attempts remain: sleep(backoff),
\* backoff = min(backoff * 2, 8.0), continue
CeCallRetries ==
    /\ pc = "call"
    /\ \E code \in Outcomes \ {"ok"} :
          /\ should_retry(code, t + 1, args.max_attempts)
          /\ requests' = Append(requests, CeCall(t + 1, code))
    /\ t' = t + 1
    /\ stderr' = Append(stderr, [sleep |-> eff_period])
    /\ eff_period' = next_backoff(eff_period)
    /\ UNCHANGED <<given, nat_rows_all, r, rows, all_rows, csv, pc>>

\* attempt += 1; the call raises a ClientError that is not retried: raise
CeCallRaises ==
    /\ pc = "call"
    /\ \E code \in Outcomes \ {"ok"} :
          /\ ~should_retry(code, t + 1, args.max_attempts)
          /\ requests' = Append(requests, CeCall(t + 1, code))
          /\ rows' = <<CeResult("raised", code, t + 1)>>
    /\ t' = t + 1
    /\ pc' = "raised"
    /\ UNCHANGED <<given, eff_period, nat_rows_all, r, all_rows, csv, stderr>>

NextRetry == CeCallReturns \/ CeCallRetries \/ CeCallRaises

\* attempt, backoff = 0, 1.0
InitRetry ==
    /\ script \in {"scripts/ce_all_accounts", "scripts/cloudHiro/ce_all_accounts",
                   "back/ce_all_accounts_for_1payer"}
    /\ args \in [max_attempts : 1..MaxAttempts]
    /\ inventory = <<>>
    /\ t = 0 /\ eff_period = 1 /\ r = 1
    /\ requests = <<>> /\ rows = <<>> /\ all_rows = <<>> /\ nat_rows_all = <<>>
    /\ csv = <<>> /\ stderr = <<>> /\ pc = "call"

SpecRetry == InitRetry /\ [][NextRetry]_vars


---------------------------------------------------------------------------
(* scripts/ce_all_accounts.py: fetch_account_cost and main.  Amounts are in
   thousandths of the currency unit. *)

\* the sum of the Amounts of the ResultsByTime of every page
RECURSIVE fetch_account_cost(_)
fetch_account_cost(pages) ==
    IF pages = <<>> THEN 0 ELSE SeqSum(Head(pages)) + fetch_account_cost(Tail(pages))

\* the digits before the decimal point, in groups of three
RECURSIVE ThousandGroups(_)
ThousandGroups(whole) ==
    IF whole < 1000 THEN <<whole>>
    ELSE Append(ThousandGroups(whole \div 1000), whole % 1000)

\* f"{total:,.2f}" of a non-negative Decimal: two decimals, half to even, with
\* thousands separators
formatted_total(total) ==
    LET hundredths == RoundHalfEven(total, 10)
    IN  [groups |-> ThousandGroups(hundredths \div 100), cents |-> hundredths % 100]

\* w.writerow(["account_id","account_name","total_unblended_cost"])
CE_HEADER == <<"account_id", "account_name", "total_unblended_cost">>

\* names.get(str(acct), "")
account_name(names, acct) == IF acct \in DOMAIN names THEN names[acct] ELSE ""

\* w.writerow([str(acct), names.get(str(acct), ""), formatted_total]), the
\* cells under the names of the header
ce_row(names, acct) ==
    [account_id |-> acct.Id,
     account_name |-> account_name(names, acct.Id),
     total_unblended_cost |-> formatted_total(fetch_account_cost(acct.pages))]

\* `if not accounts: raise SystemExit("No accounts found.")`
CeMainNoAccounts ==
    /\ script = "scripts/ce_all_accounts" /\ pc = "start"
    /\ inventory.accounts = <<>>
    /\ stderr' = Append(stderr, Skip("No accounts found.", "", ""))
    /\ pc' = "exited"
    /\ UNCHANGED <<given, eff_period, requests, nat_rows_all, r, t, rows, all_rows, csv>>

\* the file is opened and the header written
CeMainWriteHeader ==
    /\ script = "scripts/ce_all_accounts" /\ pc = "start"
    /\ inventory.accounts # <<>>
    /\ all_rows' = <<CE_HEADER>> /\ t' = 1 /\ pc' = "accounts"
    /\ UNCHANGED <<given, eff_period, requests, nat_rows_all, r, rows, csv, stderr>>

\* one account: its cost is fetched and its row written
CeMainAccountRow ==
    /\ script = "scripts/ce_all_accounts" /\ pc = "accounts"
    /\ t <= Len(inventory.accounts) /\ inventory.accounts[t].ce_ok
    /\ csv' = Append(csv, ce_row(inventory.names, inventory.accounts[t]))
    /\ t' = t + 1
    /\ UNCHANGED <<given, eff_period, requests, nat_rows_all, r, rows, all_rows, stderr, pc>>

\* call_ce_with_retry raises for an account: nothing in fetch_account_cost or
\* main catches it; the rows written so far stay in the file
CeMainAccountRaises ==
    /\ script = "scripts/ce_all_accounts" /\ pc = "accounts"
    /\ t <= Len(inventory.accounts) /\ ~inventory.accounts[t].ce_ok
    /\ pc' = "crashed"
    /\ UNCHANGED <<given, eff_period, requests, nat_rows_all, r, t, rows, all_rows, csv, stderr>>

\* the loop ends, the file is closed
CeMainDone ==
    /\ script = "scripts/ce_all_accounts" /\ pc = "accounts"
    /\ t > Len(inventory.accounts)
    /\ pc' = "done"
    /\ UNCHANGED <<given, eff_period, requests, nat_rows_all, r, t, rows, all_rows, csv, stderr>>

NextCeMain ==
    \/ CeMainNoAccounts \/ CeMainWriteHeader \/ CeMainAccountRow
    \/ CeMainAccountRaises \/ CeMainDone

MaxAccounts == 2

\* what Cost Explorer answers for one account: the Amounts of each page
CostPages ==
    { <<>>, <<<<0>>>>, <<<<1005>>>>, <<<<1015>>>>, <<<<999995>>>>,
      <<<<1234567, 891>>, <<1000000000>>>> }

AccountIds == <<"111111111111", "222222222222", "333333333333">>

Account(id, ce_ok, pages) == [Id |-> id, ce_ok |-> ce_ok, pages |-> pages]

AccountLists ==
    UNION { { [i \in 1..n |-> Account(AccountIds[i], k[i].ce_ok, k[i].pages)] :
              k \in [1..n -> [ce_ok : {TRUE}, pages : CostPages]
                               \cup [ce_ok : {FALSE}, pages : {<<>>}]] } :
            n \in 0..MaxAccounts }

\* map_account_names: every name, or none when list_accounts is denied
AccountNames ==
    { [a \in {AccountIds[i] : i \in 1..Len(AccountIds)} |-> "acct-" \o a],
      [a \in {} |-> ""] }

InitCeMain ==
    /\ script = "scripts/ce_all_accounts"
    /\ args = [FILTER_MODE |-> "ui"] /\ eff_period = 0
    /\ \E accts \in AccountLists, names \in AccountNames :
          inventory = [accounts |-> accts, names |-> names]
    /\ r = 1 /\ t = 1 /\ rows = <<>> /\ all_rows = <<>> /\ nat_rows_all = <<>>
    /\ requests = <<>> /\ csv = <<>> /\ stderr = <<>> /\ pc = "start"

SpecCeMain == InitCeMain /\ [][NextCeMain]_vars


---------------------------------------------------------------------------
(* back/ec2_efficiency_metrics.py: cw_batch_get.  A query Id is an instance
   with a suffix; Values are whole numbers. *)

SeqMax(q) == CHOOSE x \in {q[i] : i \in 1..Len(q)} : \A j \in 1..Len(q) : q[j] <= x

SeqMin(q) == CHOOSE x \in {q[i] : i \in 1..Len(q)} : \A j \in 1..Len(q) : x <= q[j]

\* the aggregation chosen by the suffix of the Id, for a non-empty vals
aggregate(suffix, vals) ==
    CASE suffix \in {"_avg", "_memavg"} -> Rat(SeqSum(vals), Len(vals))
      [] suffix \in {"_p95", "_memp95"} -> RInt(SeqMax(vals))
      [] suffix \in {"_max", "_memmax"} -> RInt(SeqMax(vals))
      [] suffix = "_sum" -> RInt(SeqSum(vals))
      [] suffix = "_min" -> RInt(SeqMin(vals))
      [] suffix = "_statusmax" -> RInt(SeqMax(vals))
      [] OTHER -> Rat(SeqSum(vals), Len(vals))

QueryIds == {"_avg", "_max", "_sum", "_min", "_p95"}

\* the loop over resp["MetricDataResults"] of one page: `if not vals:
\* continue`, else results[id_] = the aggregate of this page's vals
page_results(results, page) ==
    [id \in QueryIds |->
        IF page[id] = <<>> THEN results[id] ELSE aggregate(id, page[id])]

\* a page that carries a NextToken: its results are stored, next page
CwBatchPage ==
    /\ script = "back/ec2_efficiency_metrics" /\ pc = "pages"
    /\ t < Len(inventory)
    /\ rows' = <<page_results(rows[1], inventory[t])>>
    /\ requests' = Append(requests, [NextToken |-> t > 1])
    /\ t' = t + 1
    /\ UNCHANGED <<given, eff_period, nat_rows_all, r, all_rows, csv, stderr, pc>>

\* the page without a NextToken: its results are stored, `break`, return
CwBatchLastPage ==
    /\ script = "back/ec2_efficiency_metrics" /\ pc = "pages"
    /\ t = Len(inventory)
    /\ rows' = <<page_results(rows[1], inventory[t])>>
    /\ requests' = Append(requests, [NextToken |-> t > 1])
    /\ pc' = "returned"
    /\ UNCHANGED <<given, eff_period, nat_rows_all, r, t, all_rows, csv, stderr>>

NextCwBatch == CwBatchPage \/ CwBatchLastPage

MaxPages == 3

\* the Values one page may hold for an Id
PageValues == {<<>>, <<1>>, <<2, 4>>, <<3, 0>>}

\* one page: the same Values for every Id of a set of Ids, none for the rest
MetricPages ==
    { [id \in QueryIds |-> IF id \in ids THEN vals ELSE <<>>] :
        vals \in PageValues, ids \in {QueryIds, {"_avg", "_sum"}, {"_max", "_min", "_p95"}} }

\* results = {}, next_token = None; GetMetricData answers with 1..MaxPages pages
InitCwBatch ==
    /\ script = "back/ec2_efficiency_metrics"
    /\ args = [period |-> 300] /\ eff_period = 300
    /\ inventory \in UNION { [1..n -> MetricPages] : n \in 1..MaxPages }
    /\ rows = <<[id \in QueryIds |-> None]>>
    /\ r = 1 /\ t = 1 /\ all_rows = <<>> /\ nat_rows_all = <<>>
    /\ requests = <<>> /\ csv = <<>> /\ stderr = <<>> /\ pc = "pages"

SpecCwBatch == InitCwBatch /\ [][NextCwBatch]_vars


---------------------------------------------------------------------------
(* rds_rightsizing: collect_profile.  A region is the pages of its
   describe_db_instances paginator; a page either arrives or raises
   ClientError.  Of the row's columns the model keeps the identity and the
   CPU figures. *)

\* safe_series: a ClientError of one metric is logged and gives []
rds_safe_series(src) == IF src.err THEN <<>> ELSE get_metric_series(src)

\* the row of one instance: collect_for_instance, then the row dict
rds_row(region, inst) ==
    LET cpu == summarize(rds_safe_series(inst.cpu))
    IN  [region |-> region, db_instance_id |-> inst.DBInstanceIdentifier,
         engine |-> inst.Engine,
         cpu_avg_pct |-> cpu.avg, cpu_p95_pct |-> cpu.p95, cpu_max_pct |-> cpu.mx]

\* `for inst in page.get("DBInstances", []): ... rows.append(row)`
page_rows(region, page) ==
    [i \in 1..Len(page.DBInstances) |-> rds_row(region, page.DBInstances[i])]

cur_page == inventory[r].pages[t]

\* the paginator yields a page: one row for each of its instances
RdsPage ==
    /\ script = "rds_rightsizing" /\ pc = "regions"
    /\ r <= Len(inventory) /\ t <= Len(cur_region.pages) /\ cur_page.ok
    /\ rows' = rows \o page_rows(cur_region.region, cur_page)
    /\ requests' = requests
                   \o [i \in 1..Len(cur_page.DBInstances) |->
                         Request(window(args.days), eff_period)]
    /\ t' = t + 1
    /\ UNCHANGED <<given, eff_period, nat_rows_all, r, all_rows, csv, stderr, pc>>

\* the paginator raises ClientError: the region's except logs it, next region
RdsPageRaises ==
    /\ script = "rds_rightsizing" /\ pc = "regions"
    /\ r <= Len(inventory) /\ t <= Len(cur_region.pages) /\ ~cur_page.ok
    /\ stderr' = Append(stderr, Skip("skipping due to error", cur_region.region, ""))
    /\ rows' = on_client_error(rows, cur_region.region)
    /\ t' = 1 /\ r' = r + 1
    /\ UNCHANGED <<given, eff_period, requests, nat_rows_all, all_rows, csv, pc>>

\* the paginator is exhausted: next region
RdsRegionDone ==
    /\ script = "rds_rightsizing" /\ pc = "regions"
    /\ r <= Len(inventory) /\ t > Len(cur_region.pages)
    /\ t' = 1 /\ r' = r + 1
    /\ UNCHANGED <<given, eff_period, requests, nat_rows_all, rows, all_rows, csv, stderr, pc>>

\* `return rows`; main extends all_rows and writes the CSV
RdsWriteCsv ==
    /\ script = "rds_rightsizing" /\ pc = "regions"
    /\ r > Len(inventory)
    /\ all_rows' = all_rows \o rows /\ csv' = all_rows \o rows
    /\ rows' = <<>> /\ pc' = "done"
    /\ UNCHANGED <<given, eff_period, requests, nat_rows_all, r, t, stderr>>

NextRds == RdsPage \/ RdsPageRaises \/ RdsRegionDone \/ RdsWriteCsv

MaxDbPages == 2

DbInstance(id, engine, cpu) ==
    [DBInstanceIdentifier |-> id, Engine |-> engine, cpu |-> cpu]

DbPage(ok, instances) == [ok |-> ok, DBInstances |-> instances]

\* a page that raises; an empty page; pages of one instance with CPU data,
\* with a denied CPU metric, with no datapoints; a page of two instances
DbPageKinds ==
    { DbPage(FALSE, <<>>), DbPage(TRUE, <<>>),
      DbPage(TRUE, <<DbInstance("a", "postgres", Src(RL(20, 1440)))>>),
      DbPage(TRUE, <<DbInstance("a", "mysql", ErrSrc)>>),
      DbPage(TRUE, <<DbInstance("a", "aurora-mysql", Src(<<>>))>>),
      DbPage(TRUE, <<DbInstance("a", "postgres", Src(RL(20, 1440))),
                     DbInstance("b", "mysql", Src(RL(90, 1440)))>>) }

DbPageNames == <<"p1-", "p2-", "p3-">>

\* instance identifiers are unique in a region
DbPageLists ==
    UNION { { [i \in 1..n |->
                 [k[i] EXCEPT !.DBInstances =
                    [j \in 1..Len(k[i].DBInstances) |->
                       [k[i].DBInstances[j] EXCEPT !.DBInstanceIdentifier =
                          DbPageNames[i] \o k[i].DBInstances[j].DBInstanceIdentifier]]]] :
              k \in [1..n -> DbPageKinds] } : n \in 0..MaxDbPages }

RdsRegion(name, pages) == [region |-> name, pages |-> pages]

\* --profiles p1 --regions us-east-1,eu-west-1 with the default 14 days, 300 s
InitRds ==
    /\ script = "rds_rightsizing"
    /\ args = [days |-> 14, period |-> 300] /\ eff_period = 840
    /\ \E pages \in DbPageLists, ok2 \in BOOLEAN :
          inventory = << RdsRegion("us-east-1", pages),
                         RdsRegion("eu-west-1",
                                   <<DbPage(ok2,
                                       IF ok2
                                       THEN <<DbInstance("z", "postgres",
                                                         Src(RL(20, 1440)))>>
                                       ELSE <<>>)>>) >>
    /\ InitRun

\* collect_profile of the RDS and of the ECS review, each over two regions
SpecCollect == (InitRds \/ InitEcs) /\ [][NextRds \/ NextEcs]_vars


---------------------------------------------------------------------------
(* ec2_utilization: chunk_windows and fetch_cpu_points_5m.  Times are in
   hours since an epoch. *)

next_cut_mut_no_min(cur, step, end) == cur + step

\* `nxt = min(cur + step, end)`
next_cut(cur, step, end) == Min2(cur + step, end)

\* timedelta(days=max_days), in hours
step_of(max_days) == 24 * max_days

\* `while cur < end:` one window is appended, cur = nxt
ChunkWindow ==
    /\ pc = "chunking" /\ t < args.end
    /\ rows' = Append(rows, <<t, next_cut(t, step_of(args.max_days), args.end)>>)
    /\ t' = next_cut(t, step_of(args.max_days), args.end)
    /\ UNCHANGED <<given, eff_period, requests, nat_rows_all, r, all_rows, csv, stderr, pc>>

\* the loop ends: chunk_windows called on its own returns windows
ChunkReturn ==
    /\ script = "ec2_utilization.chunk_windows"
    /\ pc = "chunking" /\ t >= args.end
    /\ pc' = "returned"
    /\ UNCHANGED <<given, eff_period, requests, nat_rows_all, r, t, rows, all_rows, csv, stderr>>

\* the loop ends inside fetch_cpu_points_5m: its loop over the windows starts
FetchCpuChunked ==
    /\ script = "ec2_utilization.fetch_cpu_points_5m"
    /\ pc = "chunking" /\ t >= args.end
    /\ r' = 1 /\ pc' = "fetching"
    /\ UNCHANGED <<given, eff_period, requests, nat_rows_all, t, rows, all_rows, csv, stderr>>

\* one window: get_metric_data with Period 300 over (s, e)
FetchCpuWindow ==
    /\ script = "ec2_utilization.fetch_cpu_points_5m" /\ pc = "fetching"
    /\ r <= Len(rows)
    /\ requests' = Append(requests,
                          Request((rows[r][2] - rows[r][1]) * 3600, eff_period))
    /\ r' = r + 1
    /\ UNCHANGED <<given, eff_period, nat_rows_all, t, rows, all_rows, csv, stderr, pc>>

FetchCpuReturn ==
    /\ script = "ec2_utilization.fetch_cpu_points_5m" /\ pc = "fetching"
    /\ r > Len(rows)
    /\ pc' = "returned"
    /\ UNCHANGED <<given, eff_period, requests, nat_rows_all, r, t, rows, all_rows, csv, stderr>>

NextChunk ==
    \/ ChunkWindow \/ ChunkReturn \/ FetchCpuChunked
    \/ FetchCpuWindow \/ FetchCpuReturn

MaxSpanDays == 3

\* the length of the window in hours: every length up to MaxSpanDays days,
\* around five days, and the 14 and 30 days of --days
Spans == (1..(24 * MaxSpanDays)) \cup {119, 120, 121, 336, 720}

\* chunk_windows(start, end, max_days) with start < end and max_days >= 1;
\* fetch_cpu_points_5m passes max_days=5 and asks for Period 300
InitChunk ==
    /\ \E start \in {0, 7}, span \in Spans :
          \/ /\ script = "ec2_utilization.chunk_windows"
             /\ \E max_days \in {1, 2, 5} :
                   args = [start |-> start, end |-> start + span, max_days |-> max_days]
          \/ /\ script = "ec2_utilization.fetch_cpu_points_5m"
             /\ args = [start |-> start, end |-> start + span, max_days |-> 5]
    /\ t = args.start /\ eff_period = 300 /\ inventory = <<>>
    /\ r = 1 /\ rows = <<>> /\ all_rows = <<>> /\ nat_rows_all = <<>>
    /\ requests = <<>> /\ csv = <<>> /\ stderr = <<>> /\ pc = "chunking"

SpecChunk == InitChunk /\ [][NextChunk]_vars


---------------------------------------------------------------------------
(* binary64 arithmetic on non-negative finite numbers, as CPython's float
   computes it: every operation returns the exact result rounded to the
   nearest number with a 53-bit significand, ties to even.  A number is
   [m, e] and stands for m * 2^e, where m is a natural number written as
   limbs of 15 bits (base 32768), least significant first, and 2^52 <= m < 2^53 (zero is
   m = 0, e = 0). *)

Pow2(i) == 2 ^ i

Limb(M, i) == IF i >= 1 /\ i <= Len(M) THEN M[i] ELSE 0

BBit(M, i) == (Limb(M, i \div 15 + 1) \div Pow2(i % 15)) % 2

BIsZero(M) == \A i \in 1..Len(M) : M[i] = 0

BBitLen(M) ==
    IF BIsZero(M) THEN 0
    ELSE LET top == CHOOSE i \in 1..Len(M) :
                        M[i] # 0 /\ \A j \in (i + 1)..Len(M) : M[j] = 0
             w == CHOOSE b \in 1..15 :
                        M[top] \div Pow2(b - 1) # 0 /\ M[top] \div Pow2(b) = 0
         IN  15 * (top - 1) + w

BNonZeroBelow(M, i) == \E j \in 0..(i - 1) : BBit(M, j) = 1

BShr(M, s) ==
    LET a == s \div 15
        b == s % 15
    IN  [j \in 1..Len(M) |->
            (Limb(M, j + a) \div Pow2(b))
            + (Limb(M, j + a + 1) % Pow2(b)) * Pow2(15 - b)]

BShl(M, s) ==
    LET a == s \div 15
        b == s % 15
    IN  [j \in 1..(Len(M) + a + 1) |->
            (Limb(M, j - a) % Pow2(15 - b)) * Pow2(b)
            + (Limb(M, j - a - 1) \div Pow2(15 - b))]

RECURSIVE BCarry(_, _)
BCarry(cols, carry) ==
    IF cols = <<>> THEN (IF carry = 0 THEN <<>> ELSE <<carry>>)
    ELSE LET v == Head(cols) + carry
         IN  <<v % 32768>> \o BCarry(Tail(cols), v \div 32768)

BAdd(A, B) ==
    BCarry([j \in 1..Max2(Len(A), Len(B)) |-> Limb(A, j) + Limb(B, j)], 0)

\* A - B for A >= B
RECURSIVE BBorrow(_, _, _, _)
BBorrow(A, B, j, borrow) ==
    IF j > Len(A) THEN <<>>
    ELSE LET v == Limb(A, j) - Limb(B, j) - borrow
         IN  IF v >= 0 THEN <<v>> \o BBorrow(A, B, j + 1, 0)
             ELSE <<v + 32768>> \o BBorrow(A, B, j + 1, 1)

BSub(A, B) == BBorrow(A, B, 1, 0)

BLt(A, B) ==
    \E i \in 1..Max2(Len(A), Len(B)) :
        /\ Limb(A, i) < Limb(B, i)
        /\ \A j \in (i + 1)..Max2(Len(A), Len(B)) : Limb(A, j) = Limb(B, j)

BEq(A, B) == \A i \in 1..Max2(Len(A), Len(B)) : Limb(A, i) = Limb(B, i)

\* column k of the schoolbook product: the low halves of the limb products
\* of column k and the high halves of those of column k - 1
RECURSIVE BMulCol(_, _, _, _)
BMulCol(A, B, k, i) ==
    IF i > Len(A) THEN 0
    ELSE ((Limb(A, i) * Limb(B, k - i + 1)) % 32768)
         + ((Limb(A, i) * Limb(B, k - i)) \div 32768)
         + BMulCol(A, B, k, i + 1)

BMul(A, B) == BCarry([k \in 1..(Len(A) + Len(B)) |-> BMulCol(A, B, k, 1)], 0)

FZero == [m |-> <<0, 0, 0, 0>>, e |-> 0]

\* the number nearest to M * 2^e, ties to even
FRound(M, e) ==
    LET L == BBitLen(M)
        s == L - 53
        q == BShr(M, s)
        up == BBit(M, s - 1) = 1 /\ (BNonZeroBelow(M, s - 1) \/ BBit(q, 0) = 1)
        q1 == IF up THEN BAdd(q, <<1>>) ELSE q
    IN  IF L = 0 THEN FZero
        ELSE IF s <= 0 THEN [m |-> SubSeq(BShl(M, -s), 1, 4), e |-> e + s]
        ELSE IF BBitLen(q1) > 53
             THEN [m |-> SubSeq(BShr(q1, 1), 1, 4), e |-> e + s + 1]
        ELSE [m |-> SubSeq(q1, 1, 4), e |-> e + s]

FIsZero(x) == BIsZero(x.m)

FMul(x, y) == FRound(BMul(x.m, y.m), x.e + y.e)

FAdd(x, y) ==
    IF FIsZero(x) THEN y
    ELSE IF FIsZero(y) THEN x
    ELSE LET e == Min2(x.e, y.e)
         IN  FRound(BAdd(BShl(x.m, x.e - e), BShl(y.m, y.e - e)), e)

FLt(x, y) ==
    IF FIsZero(y) THEN FALSE
    ELSE IF FIsZero(x) THEN TRUE
    ELSE x.e < y.e \/ (x.e = y.e /\ BLt(x.m, y.m))

FEq(x, y) == x.e = y.e /\ BEq(x.m, y.m)

FLe(x, y) == FLt(x, y) \/ FEq(x, y)

\* x - y for x >= y
FSub(x, y) ==
    IF FIsZero(y) THEN x
    ELSE LET e == Min2(x.e, y.e)
         IN  FRound(BSub(BShl(x.m, x.e - e), BShl(y.m, y.e - e)), e)

\* float(i) for a small natural number i
FInt(i) == FRound(<<i % 32768, i \div 32768>>, 0)

\* math.floor(x) for x < 2^30
FFloor(x) ==
    IF FIsZero(x) \/ x.e <= -53 THEN 0
    ELSE IF x.e >= 0 THEN Limb(BShl(x.m, x.e), 1) + 32768 * Limb(BShl(x.m, x.e), 2)
    ELSE Limb(BShr(x.m, -x.e), 1) + 32768 * Limb(BShr(x.m, -x.e), 2)

\* the literals 0.95 and 0.5, and p / 100.0 for the percents in use
F095 == [m |-> <<26214, 19660, 6553, 243>>, e |-> -53]

FHalf == [m |-> <<0, 0, 0, 128>>, e |-> -53]

FOne == [m |-> <<0, 0, 0, 128>>, e |-> -52]

PercentOver100(p) ==
    CASE p = 0 -> FZero
      [] p = 50 -> FHalf
      [] p = 95 -> F095
      [] p = 100 -> FOne

\* int(round(x)): ties go to the even integer
FRoundInt(x) ==
    LET f == FFloor(x)
        rest == FSub(x, FInt(f))
    IN  IF FLt(rest, FHalf) THEN f
        ELSE IF FLt(FHalf, rest) THEN f + 1
        ELSE IF f % 2 = 0 THEN f ELSE f + 1

RECURSIVE FInsert(_, _)
FInsert(x, s) ==
    IF s = <<>> THEN <<x>>
    ELSE IF FLe(x, Head(s)) THEN <<x>> \o s
    ELSE <<Head(s)>> \o FInsert(x, Tail(s))

\* sorted(xs)
RECURSIVE FSorted(_)
FSorted(xs) == IF xs = <<>> THEN <<>> ELSE FInsert(Head(xs), FSorted(Tail(xs)))

\* cloudwatch._percentile(sorted_series, p) in binary64
percentile_binary64(sorted_series, p) ==
    LET n == Len(sorted_series)
        k == FMul(FInt(n - 1), PercentOver100(p))
        f == FFloor(k)
        c == Min2(f + 1, n - 1)
    IN  IF f = c THEN sorted_series[f + 1]
        ELSE FAdd(sorted_series[f + 1],
                  FMul(FSub(sorted_series[c + 1], sorted_series[f + 1]),
                       FSub(k, FInt(f))))

\* MetricAggregate.p95 in binary64, for a non-empty p95s
agg_p95_binary64(p95s) ==
    LET ordered == FSorted(p95s)
        k == FMul(FInt(Len(ordered) - 1), F095)
        f == FFloor(k)
        c == Min2(f + 1, Len(ordered) - 1)
        d0 == FMul(ordered[f + 1], FSub(FInt(c), k))
        d1 == FMul(ordered[c + 1], FSub(k, FInt(f)))
    IN  IF f = c THEN ordered[f + 1] ELSE FAdd(d0, d1)

\* ec2_utilization p95 in binary64, for a non-empty xs
p95_binary64(xs) ==
    LET ys == FSorted(xs)
        idx == FRoundInt(FMul(F095, FInt(Len(ys) - 1)))
    IN  ys[idx + 1]

---------------------------------------------------------------------------
(* The percentile functions applied to one sample *)

MaxSample == 3

\* 0.0, 1.0, 2.0 and 1.7
SampleValues ==
    { FZero, FOne,
      [m |-> <<0, 0, 0, 128>>, e |-> -51],
      [m |-> <<13107, 26214, 19660, 217>>, e |-> -52] }

Samples == UNION {[1..n -> SampleValues] : n \in 0..MaxSample}

Percents == {0, 50, 95, 100}

Result(fn, p, out) == [fn |-> fn, p |-> p, out |-> out]

\* s = sorted(series); _percentile(s, p)   (summarize calls it with 95.0)
PercentileCall ==
    /\ script = "percentile" /\ pc = "call"
    /\ \E p \in Percents :
          rows' = <<Result("_percentile", p,
                           IF inventory = <<>> THEN None
                           ELSE percentile_binary64(FSorted(inventory), p))>>
    /\ pc' = "done"
    /\ UNCHANGED <<given, eff_period, requests, nat_rows_all, r, t, all_rows, csv, stderr>>

\* MetricAggregate(p95s = the sample).p95
AggP95Call ==
    /\ script = "percentile" /\ pc = "call"
    /\ rows' = <<Result("MetricAggregate.p95", 95,
                        IF inventory = <<>> THEN FZero
                        ELSE agg_p95_binary64(inventory))>>
    /\ pc' = "done"
    /\ UNCHANGED <<given, eff_period, requests, nat_rows_all, r, t, all_rows, csv, stderr>>

\* ec2_utilization p95(xs)
Ec2P95Call ==
    /\ script = "percentile" /\ pc = "call"
    /\ rows' = <<Result("p95", 95,
                        IF inventory = <<>> THEN FZero
                        ELSE p95_binary64(inventory))>>
    /\ pc' = "done"
    /\ UNCHANGED <<given, eff_period, requests, nat_rows_all, r, t, all_rows, csv, stderr>>

NextPercentile == PercentileCall \/ AggP95Call \/ Ec2P95Call

InitPercentile ==
    /\ script = "percentile" /\ args = <<>> /\ eff_period = 0
    /\ inventory \in Samples
    /\ r = 1 /\ t = 1 /\ rows = <<>> /\ all_rows = <<>> /\ nat_rows_all = <<>>
    /\ requests = <<>> /\ csv = <<>> /\ stderr = <<>> /\ pc = "call"

SpecPercentile == InitPercentile /\ [][NextPercentile]_vars


---------------------------------------------------------------------------
(* Properties of the DynamoDB decision rules *)

SeqSet(q) == {q[i] : i \in 1..Len(q)}

\* every row the run holds: in collect_region, in main, or written
Emitted == SeqSet(rows) \cup SeqSet(all_rows) \cup SeqSet(csv)

WouldBeStrong(row) == steady_rules(row) = STRONG

\* C1: whenever coverage_ok is false for the 30-day window the recommendation
\* is exactly NEED_MORE_DATA, whatever the throttle sums, stability ratios,
\* spike ratios, headroom values and avg_ops_sec are.
C1_NoCoverageNeedsMoreData ==
    \A row \in Emitted :
        ~row.coverage_ok => row.recommendation = NEED_MORE_DATA

\* a row without coverage that has throttles and would otherwise be STRONG
C1_Witness ==
    \E row \in Emitted :
        /\ ~row.coverage_ok /\ throttle_sum(row) > 0 /\ WouldBeStrong(row)
        /\ row.recommendation = NEED_MORE_DATA

\* C2: with coverage_ok true and a positive sum of the table-level throttle
\* events of the 7-day and 30-day windows the recommendation is
\* 'ON_DEMAND | throttles observed', also for inputs that satisfy the
\* PROVISIONED_STRONG branch.
C2_ThrottlesOutrankSteadyState ==
    \A row \in Emitted :
        (row.coverage_ok /\ throttle_sum(row) > 0)
            => row.recommendation = THROTTLES

C2_Witness ==
    \E row \in Emitted :
        /\ row.coverage_ok /\ throttle_sum(row) > 0 /\ WouldBeStrong(row)
        /\ row.recommendation = THROTTLES

\* 30-day load of average 2 (per second, reads or writes, the other one not
\* above it) and peak 3, no throttles, coverage sufficient
ScenarioA(row) ==
    /\ row.coverage_ok /\ throttle_sum(row) = 0
    /\ Max2(row.peak_30d_read, row.peak_30d_write) = 3
    /\ RLe(row.avg_30d_read_per_sec, RInt(2))
    /\ RLe(row.avg_30d_write_per_sec, RInt(2))
    /\ \/ REq(row.avg_30d_read_per_sec, RInt(2))
       \/ REq(row.avg_30d_write_per_sec, RInt(2))

\* C3 as stated: average=2, peak=3 over 30 days, throttle_sum=0 and
\* coverage_ok=true give the strong steady-state recommendation.
C3_ScenarioAIsStrong ==
    \A row \in Emitted : ScenarioA(row) => row.recommendation = STRONG

\* C3 as amended: such a table gets the keep-on-demand default ON_DEMAND,
\* because its avg_ops_sec is below the sustained floor of 10 ops/sec that
\* both PROVISIONED branches require.
C3_ScenarioAIsOnDemand ==
    \A row \in Emitted : ScenarioA(row) => row.recommendation = ON_DEMAND

C3_Witness ==
    \E row \in Emitted :
        /\ ScenarioA(row) /\ REq(row.avg_ops_sec, RInt(4))
        /\ RLe(row.stability_7d_read, RInt(2))
        /\ row.recommendation = ON_DEMAND

\* average and peak 0 in every window, coverage sufficient, no throttles
ScenarioB(row) ==
    /\ row.coverage_ok /\ throttle_sum(row) = 0
    /\ row.total_30d_read = 0 /\ row.total_30d_write = 0
    /\ row.peak_30d_read = 0 /\ row.peak_30d_write = 0
    /\ row.avg_7d_read_per_sec.n = 0 /\ row.avg_7d_write_per_sec.n = 0
    /\ row.peak_7d_read = 0 /\ row.peak_7d_write = 0

C7_LowCoverageIsNotOk ==
    \A row \in Emitted :
        /\ row.expected_samples_30d = 720
        /\ (\/ 10 * row.samples_30d_read < 9 * row.expected_samples_30d
            \/ 10 * row.samples_30d_write < 9 * row.expected_samples_30d)
               => ~row.coverage_ok

C7_Witness ==
    \E row \in Emitted :
        /\ row.samples_30d_read = 720 /\ row.samples_30d_write = 647
        /\ ~row.coverage_ok


\* C13: when the 7-day p95 has no samples and the 30-day peak is 10, headroom
\* is unknown (None: not 0, not an exception) and the recommendation is
\* NEED_MORE_DATA instead of headroom being compared with the threshold
C13_AbsentP95IsUnknown ==
    \A row \in Emitted :
        (/\ script = "dynamodb_finops"
         /\ inventory[1].tables[1].tel.read_7d.dps = NoSamples
         /\ row.peak_30d_read = 10)
        => IsNone(row.headroom_r) /\ row.recommendation = NEED_MORE_DATA

\* x is 0 when the denominator d is not positive and n / d otherwise, and is
\* a number in both cases (n a whole number, d a rational)
RatioOrZero(x, n, d) ==
    /\ x.d # 0
    /\ d.n <= 0 => x.n = 0
    /\ d.n > 0 => x = Rat(n * d.d, d.n)

\* C14: a derived ratio whose denominator is zero is 0 and nothing raises:
\* the 7-day stability and the 30-day spike ratios are 0 for avg <= 0 and
\* peak / avg otherwise, headroom is 0 when the 30-day peak is 0, and the S3
\* cold-storage ratio is 0 when the total bytes are 0
C14_ZeroDenominatorGivesZero ==
    /\ script = "dynamodb_finops" =>
          \A row \in Emitted :
              /\ RatioOrZero(row.stability_7d_read, row.peak_7d_read,
                             row.avg_7d_read_per_sec)
              /\ RatioOrZero(row.stability_7d_write, row.peak_7d_write,
                             row.avg_7d_write_per_sec)
              /\ RatioOrZero(row.read_spike_ratio, row.peak_30d_read,
                             row.avg_30d_read_per_sec)
              /\ RatioOrZero(row.write_spike_ratio, row.peak_30d_write,
                             row.avg_30d_write_per_sec)
              /\ row.headroom_r.d # 0 /\ row.headroom_w.d # 0
              /\ row.peak_30d_read = 0 => row.headroom_r.n = 0
              /\ row.peak_30d_write = 0 => row.headroom_w.n = 0
    /\ script = "s3_cost_analysis" =>
          \A row \in SeqSet(rows) \cup SeqSet(all_rows) :
              /\ row.cold_storage_ratio_pct.d # 0
              /\ row.total_storage_gb = 0 => row.cold_storage_ratio_pct.n = 0

\* a row whose 7-day p95 is positive while the 30-day peak and the 30-day
\* average are 0: headroom and the spike ratio both meet a zero denominator
C14_Witness ==
    /\ script = "dynamodb_finops"
    /\ \E row \in Emitted :
          /\ row.peak_30d_read = 0 /\ row.p95_7d_read.n > 0
          /\ row.avg_30d_read_per_sec.n = 0
          /\ row.headroom_r.n = 0 /\ row.read_spike_ratio.n = 0
          /\ row.avg_7d_write_per_sec.n > 0 /\ row.stability_7d_write.n > 0

\* C22: with sufficient coverage any non-zero throttling indicator of the
\* table, the throttle sum of its most-throttled global secondary index
\* included, gives 'ON_DEMAND | throttles observed'.
C22_GsiThrottlesCountAsThrottles ==
    \A row \in Emitted :
        (/\ row.coverage_ok
         /\ throttle_sum(row) > 0 \/ row.gsi_top_throttle_30d_sum > 0)
           => row.recommendation = THROTTLES

\* C26: a PROVISIONED_STRONG or PROVISIONED_CAUTIOUS recommendation is given
\* only with coverage_ok true, the four table-level throttle sums 0 and
\* avg_ops_sec >= 10; and every row that satisfies the PROVISIONED_STRONG
\* condition satisfies the PROVISIONED_CAUTIOUS condition too, so that it is
\* the order of the two tests that makes it STRONG.
C26_ProvisionedGuardsAndOverlap ==
    \A row \in Emitted :
        /\ row.recommendation \in {STRONG, CAUTIOUS} =>
              /\ row.coverage_ok
              /\ throttle_sum(row) = 0
              /\ RLe(RInt(10), row.avg_ops_sec)
        /\ strong_condition(row) => cautious_condition(row)

\* a PROVISIONED_STRONG row: it satisfies both conditions
C26_Witness ==
    \E row \in Emitted :
        /\ row.recommendation = STRONG
        /\ row.coverage_ok /\ throttle_sum(row) = 0
        /\ strong_condition(row) /\ cautious_condition(row)

---------------------------------------------------------------------------
(* Properties of batch runs *)

\* the rows written for one resource
RowsOfTable(region, name) ==
    { k \in 1..Len(csv) : csv[k].Region = region /\ csv[k].TableName = name }

RowsOfBucket(profile, name) ==
    { k \in 1..Len(csv) :
        csv[k].profile = profile /\ csv[k].bucket_name = name }

SkipsOf(what, where, name) ==
    { k \in 1..Len(stderr) : stderr[k] = Skip(what, where, name) }

\* the Telemetry Source answers every fetch, with no datapoints
TableWithoutTelemetry(tab) == tab.describe_ok /\ tab.tel = NoDataTel

BucketWithoutTelemetry(b) ==
    /\ b.location_ok /\ b.objects = Src(<<>>)
    /\ \A st \in STORAGE_TYPE_MAP : b.storage[st] = Src(<<>>)

DdbDone == script = "dynamodb_finops" /\ pc = "done"

S3Done == script = "s3_cost_analysis" /\ pc = "done"

C6_FetchFailureKeepsRow ==
    DdbDone =>
        \A i \in 1..Len(inventory) : \A j \in 1..Len(inventory[i].tables) :
            inventory[i].tables[j].describe_ok =>
                Cardinality(RowsOfTable(inventory[i].region,
                                        inventory[i].tables[j].TableName)) = 1


\* a table for which collect_region appends a row
TableGivesRow(tab) == tab.describe_ok /\ ~collect_table_raises(tab)

\* C15: a failure while enumerating the resources of one region (for S3: of
\* one profile) skips only that region: the run goes on, and when it ends the
\* rows of every region that could be enumerated are written
C15_EnumerationFailureSkipsOnlyItsRegion ==
    /\ pc # "crashed"
    /\ DdbDone =>
         \A i \in 1..Len(inventory) : \A j \in 1..Len(inventory[i].tables) :
            (inventory[i].list_ok /\ TableGivesRow(inventory[i].tables[j]))
               => RowsOfTable(inventory[i].region,
                              inventory[i].tables[j].TableName) # {}
    /\ S3Done =>
         \A i \in 1..Len(inventory) : \A j \in 1..Len(inventory[i].buckets) :
            (/\ inventory[i].list_ok /\ inventory[i].buckets[j].location_ok
             /\ ~no_metrics_returned(inventory[i].buckets[j]))
               => RowsOfBucket(inventory[i].profile,
                               inventory[i].buckets[j].Name) # {}

---------------------------------------------------------------------------
(* Properties of the verdicts and of the period *)

NoSamplesForBroker(row) ==
    /\ IsNone(row.avg_cpu_Xd) /\ IsNone(row.avg_connections_Xd)
    /\ IsNone(row.msg_count_avg) /\ IsNone(row.msg_ready_avg)

NoSamplesForInstance(row) ==
    \E i \in 1..Len(inventory) : \E j \in 1..Len(inventory[i].instances) :
        /\ inventory[i].region = row.region
        /\ inventory[i].instances[j].InstanceId = row.instance_id
        /\ \/ inventory[i].instances[j].cpu.err
           \/ inventory[i].instances[j].cpu.dps = <<>>

NoSamplesForNat(row) ==
    \E i \in 1..Len(inventory) : \E j \in 1..Len(inventory[i].nats) :
        /\ inventory[i].region = row.region
        /\ inventory[i].nats[j].NatGatewayId = row.nat_gateway_id
        /\ \/ inventory[i].nats[j].metrics.err
           \/ /\ inventory[i].nats[j].metrics.dps.bytes_out = <<>>
              /\ inventory[i].nats[j].metrics.dps.conns = <<>>

\* C8: no idle / remove / downsize verdict for a resource whose utilisation
\* metrics returned no samples or failed to fetch: no flag_idle_candidate
\* and no 'Stop/Downsize broker' for such a broker, no 'Idle /
\* Over-Provisioned' for such an instance, no 'Idle' / 'remove_if_unused'
\* for such a NAT Gateway.
C8_NoVerdictWithoutSamples ==
    /\ script = "amazon_mq_finops" =>
         \A row \in SeqSet(rows) \cup SeqSet(csv) :
            NoSamplesForBroker(row) =>
               /\ ~row.flags.flag_idle_candidate
               /\ "Stop/Downsize broker" \notin SeqSet(row.recommended_action)
    /\ script = "ec2_utilization" =>
         /\ \A row \in SeqSet(all_rows) :
               NoSamplesForInstance(row) =>
                  row.category # "Idle / Over-Provisioned"
         /\ \A row \in SeqSet(nat_rows_all) :
               NoSamplesForNat(row) =>
                  /\ row.status # "Idle"
                  /\ row.recommended_action # "remove_if_unused"

\* C9: for every days >= 1 and requested period >= 1 the period sent to the
\* Telemetry Source satisfies window seconds / period <= 1440, in the RDS,
\* ECS and Amazon MQ reviews and in the S3 review over its days+1 window.
C9_NeverTooManyPoints ==
    \A q \in SeqSet(requests) : q.seconds <= 1440 * q.Period

\* C10: for every days >= 1 and requested period >= 1, multiples of 60 or
\* not, the granularity effective_period returns is a multiple of 60 s.
C10_PeriodIsMultipleOf60 ==
    (script \in {"rds_rightsizing", "ecs_rightsizing", "amazon_mq_finops"}
       /\ pc \in {"collect", "fetched"})
        => /\ eff_period % 60 = 0
           /\ \A q \in SeqSet(requests) : q.Period % 60 = 0

\* C27: effective_period never lowers the caller's period and is idempotent,
\* so the Amazon MQ review, which applies it in main and again per broker in
\* collect_profile, fetches with the period main computed.
C27_EffectivePeriodIsIdempotent ==
    (script = "amazon_mq_finops" /\ pc \in {"collect", "fetched"}) =>
       /\ eff_period >= args.period
       /\ mq_effective_period(args.days, eff_period) = eff_period
       /\ \A q \in SeqSet(requests) : q.Period = eff_period

\* one day with a requested 61 s: main gives 61 and so does the broker loop
C27_Witness ==
    /\ script = "amazon_mq_finops" /\ pc = "fetched"
    /\ args = [days |-> 1, period |-> 61]
    /\ eff_period = 61 /\ requests # <<>>

---------------------------------------------------------------------------
(* Properties of the percentile functions *)

\* min(S) and max(S) of a non-empty sample
FMin(xs) == FSorted(xs)[1]

FMax(xs) == FSorted(xs)[Len(xs)]

\* C11: for a non-empty sample S, what _percentile returns for p in
\* {0, 50, 95, 100} and what MetricAggregate.p95 returns lie in
\* [min(S), max(S)]; _percentile returns min(S) for p = 0 and max(S) for p = 100
C11_PercentileWithinBounds ==
    \A i \in 1..Len(rows) :
        (script = "percentile" /\ inventory # <<>>
         /\ rows[i].fn \in {"_percentile", "MetricAggregate.p95"})
        => /\ FLe(FMin(inventory), rows[i].out)
           /\ FLe(rows[i].out, FMax(inventory))
           /\ rows[i].p = 0 => FEq(rows[i].out, FMin(inventory))
           /\ rows[i].p = 100 => FEq(rows[i].out, FMax(inventory))

\* the linearly interpolated value at rank (n - 1) * 0.95 of the sorted sample
Reference95(xs) ==
    LET s == FSorted(xs)
        k == FMul(FInt(Len(s) - 1), F095)
        f == FFloor(k)
    IN  IF f + 1 >= Len(s) THEN s[Len(s)]
        ELSE FAdd(s[f + 1], FMul(FSub(s[f + 2], s[f + 1]), FSub(k, FInt(f))))

\* a and b differ by no more than 2^-40 of the larger: equal up to rounding
FClose(a, b) ==
    LET hi == IF FLe(a, b) THEN b ELSE a
        lo == IF FLe(a, b) THEN a ELSE b
    IN  FLe(FSub(hi, lo), FMul(hi, [m |-> <<0, 0, 0, 128>>, e |-> -92]))

\* C12: for a non-empty sample and p = 95, _percentile, MetricAggregate.p95
\* and ec2_utilization's p95 each return the linearly interpolated value at
\* rank (n - 1) * 0.95 of the sorted sample (up to rounding)
C12_AllAgreeWithInterpolation ==
    \A i \in 1..Len(rows) :
        (script = "percentile" /\ inventory # <<>> /\ rows[i].p = 95)
        => FClose(rows[i].out, Reference95(inventory))

---------------------------------------------------------------------------
(* Properties of the ECS and the Amazon MQ collection *)

Ended == pc \in {"done", "crashed"}

HasRow(region, cluster, service) ==
    \E i \in 1..Len(csv) :
        /\ csv[i].region = region
        /\ csv[i].cluster_name = cluster
        /\ csv[i].service_name = service

HasBrokerRow(region, broker) ==
    \E i \in 1..Len(csv) :
        csv[i].region = region /\ csv[i].broker_id = broker

\* C16: a failure while processing one resource never removes the row of
\* another: when the run has ended, every ECS cluster whose services could be
\* listed and described has the rows of its services (or its cluster row) in
\* the output, and every Amazon MQ broker whose metrics could be listed has
\* its row, whatever happened to the other resources of its region.
C16_FailureLeavesOtherRows ==
    Ended =>
       /\ script = "ecs_rightsizing" =>
             \A i \in 1..Len(inventory) : \A j \in 1..Len(inventory[i].clusters) :
                LET cl == inventory[i].clusters[j]
                IN  (inventory[i].list_ok /\ cl.services_ok /\ cl.describe_ok) =>
                       /\ cl.services = <<>> =>
                             HasRow(inventory[i].region, cl.cluster_name, "")
                       /\ \A k \in 1..Len(cl.services) :
                             HasRow(inventory[i].region, cl.cluster_name,
                                    cl.services[k].serviceName)
       /\ script = "amazon_mq_finops" =>
             \A i \in 1..Len(inventory) : \A j \in 1..Len(inventory[i].brokers) :
                (inventory[i].list_ok /\ inventory[i].brokers[j].list_metrics_ok)
                   => HasBrokerRow(inventory[i].region,
                                   inventory[i].brokers[j].BrokerId)

\* the service of the inventory that a fetch or a row names
ServiceOf(cluster, service) ==
    CHOOSE svc \in UNION { UNION { SeqSet(cl.services) :
                                     cl \in { c \in SeqSet(inventory[i].clusters) :
                                                c.cluster_name = cluster } } :
                             i \in 1..Len(inventory) } :
        svc.serviceName = service

BrokerOf(broker) ==
    CHOOSE br \in UNION { SeqSet(inventory[i].brokers) : i \in 1..Len(inventory) } :
        br.BrokerId = broker

\* what the primary fetch of the ECS review returned for a service
CiSeries(cluster, service, metric) ==
    ecs_safe_series(ServiceOf(cluster, service).ci[metric])

\* what the Average fetch of the Amazon MQ review returned for a broker
AverageSeries(broker, metric) == mq_safe_series(BrokerOf(broker).tel[metric].Average)

EcsFallbackAt(j) == requests[j].ns = ECS_NS /\ requests[j].service # ""

\* C18: a fallback fetch comes only after the primary fetch and only when the
\* primary returned no samples. ECS: every AWS/ECS service-level request has
\* the ContainerInsights request for the same service and metric before it,
\* and that request returned nothing; a row's CPU and memory figures are the
\* ContainerInsights ones whenever ContainerInsights returned samples.
\* Amazon MQ: every Maximum request directly follows the Average request for
\* the same broker and metric, and that request returned nothing; a row's CPU
\* average is the Average one whenever Average returned samples.
C18_FallbackOnlyAfterEmptyPrimary ==
    /\ script = "ecs_rightsizing" =>
          /\ \A j \in 1..Len(requests) :
                EcsFallbackAt(j) =>
                   /\ \E i \in 1..(j - 1) :
                         requests[i] = Fetch(CI_NS, requests[j].metric,
                                             requests[j].cluster, requests[j].service)
                   /\ CiSeries(requests[j].cluster, requests[j].service,
                               requests[j].metric) = <<>>
          /\ \A row \in { x \in Emitted : x.service_name # "" } :
                LET cpu == CiSeries(row.cluster_name, row.service_name, "CPUUtilization")
                    mem == CiSeries(row.cluster_name, row.service_name, "MemoryUtilization")
                IN  /\ cpu # <<>> => row.cpu_util_avg_pct = summarize(cpu).avg
                    /\ mem # <<>> => row.mem_util_avg_pct = summarize(mem).avg
    /\ script = "amazon_mq_finops" =>
          /\ \A j \in 1..Len(requests) :
                requests[j].stat = "Maximum" =>
                   /\ j > 1
                   /\ requests[j - 1] = MqFetch(requests[j].metric, "Average",
                                                requests[j].broker)
                   /\ AverageSeries(requests[j].broker, requests[j].metric) = <<>>
          /\ \A row \in Emitted :
                LET cpu == AverageSeries(row.broker_id, "cpu")
                IN  (BrokerOf(row.broker_id).tel.cpu.dims /\ cpu # <<>>)
                       => row.avg_cpu_Xd = summarize(cpu).avg

\* a finished ECS run that made a service-level AWS/ECS request and also wrote
\* the row of a service whose ContainerInsights CPU series had samples
C18_Witness ==
    /\ script = "ecs_rightsizing" /\ pc = "done"
    /\ \E j \in 1..Len(requests) : EcsFallbackAt(j)
    /\ \E i \in 1..Len(csv) :
          /\ csv[i].service_name # ""
          /\ CiSeries(csv[i].cluster_name, csv[i].service_name, "CPUUtilization") # <<>>

\* a CPU or memory figure of the service comes from AWS/ECS
EcsUsesFallback(svc) ==
    \E mt \in {"CPUUtilization", "MemoryUtilization"} :
        /\ fallback_wanted(summarize_ci_metric(svc, mt).avg)
        /\ ~IsNone(summarize_ecs_service_metric(svc, mt).avg)

\* a figure of the broker comes from the Maximum statistic, or was fetched
\* with the CPU metric's dimensions in place of the metric's own
MqUsesFallback(br) ==
    \E mt \in {"cpu", "conn", "m1", "m2"} :
        /\ br.tel[mt].dims \/ br.tel.cpu.dims
        /\ \/ /\ ~average_ok(summarize(mq_safe_series(br.tel[mt].Average)))
              /\ mq_safe_series(br.tel[mt].Maximum) # <<>>
           \/ /\ ~br.tel[mt].dims
              /\ ~IsNone(get_stat_with_fallback(br.tel[mt]).avg)

\* C19: a row with a figure from a fallback fetch carries a tag that tells it
\* from a row built from primary data: no service (broker) without a figure
\* from a fallback fetch gives the same row.
C19_FallbackRowsAreTagged ==
    /\ script = "ecs_rightsizing" =>
          \A i \in 1..Len(inventory) : \A cl \in SeqSet(inventory[i].clusters) :
             \A svc \in SeqSet(cl.services) :
                LET row == collect_service_row(inventory[i].region, cl, svc)
                IN  (row \in Emitted /\ EcsUsesFallback(svc)) =>
                       \A k \in ServiceKinds :
                          ~EcsUsesFallback(k) =>
                             collect_service_row(inventory[i].region, cl,
                                 [k EXCEPT !.serviceName = svc.serviceName]) # row
    /\ script = "amazon_mq_finops" =>
          \A i \in 1..Len(inventory) : \A br \in SeqSet(inventory[i].brokers) :
             LET row == broker_row(inventory[i].region,
                                   inventory[i].flowlogs_enabled, br)
             IN  (row \in Emitted /\ MqUsesFallback(br)) =>
                    \A k \in BrokerKinds :
                       ~MqUsesFallback(k) =>
                          broker_row(inventory[i].region,
                                     inventory[i].flowlogs_enabled,
                                     [k EXCEPT !.BrokerId = br.BrokerId]) # row

ClusterFetches(cluster) ==
    { j \in 1..Len(requests) :
        requests[j] = Fetch(ECS_NS, "CPUUtilization", cluster, "") }

Bare(row) == IsNone(row.cpu_util_avg_pct) /\ IsNone(row.mem_util_avg_pct)

\* C25: for a cluster that has services, cluster_level_utilization is fetched
\* at most once (once if a row of the cluster lacks both service-level
\* figures, else never); the cluster_* columns of a service row hold the
\* cluster-level figures exactly when its cpu_util_avg_pct and
\* mem_util_avg_pct are both None, and are None otherwise.
C25_ClusterUtilOnceAndOnlyForBareRows ==
    script = "ecs_rightsizing" =>
       /\ \A i \in 1..Len(inventory) : \A cl \in SeqSet(inventory[i].clusters) :
             cl.services # <<>> =>
                /\ Cardinality(ClusterFetches(cl.cluster_name)) <= 1
                /\ ClusterFetches(cl.cluster_name) # {} <=>
                      \E row \in Emitted :
                         /\ row.cluster_name = cl.cluster_name
                         /\ row.service_name # "" /\ Bare(row)
             /\ \A row \in { x \in Emitted : x.cluster_name = cl.cluster_name
                                                /\ x.service_name # "" } :
                   LET cl_util == cluster_level_utilization(cl)
                   IN  IF Bare(row)
                       THEN /\ row.cluster_cpu_util_avg = cl_util.cluster_cpu_util_avg
                            /\ row.cluster_cpu_resv_avg = cl_util.cluster_cpu_resv_avg
                            /\ row.cluster_mem_util_avg = cl_util.cluster_mem_util_avg
                            /\ row.cluster_mem_resv_avg = cl_util.cluster_mem_resv_avg
                       ELSE /\ IsNone(row.cluster_cpu_util_avg)
                            /\ IsNone(row.cluster_cpu_resv_avg)
                            /\ IsNone(row.cluster_mem_util_avg)
                            /\ IsNone(row.cluster_mem_resv_avg)

\* a finished run with a cluster of two services that both lack service-level
\* figures, and a service row that has them
C25_Witness ==
    /\ script = "ecs_rightsizing" /\ pc = "done"
    /\ \E i, j \in 1..Len(csv) :
          /\ i # j /\ csv[i].cluster_name = csv[j].cluster_name
          /\ csv[i].service_name # "" /\ csv[j].service_name # ""
          /\ Bare(csv[i]) /\ Bare(csv[j])
          /\ ~IsNone(csv[i].cluster_cpu_util_avg) /\ ~IsNone(csv[j].cluster_mem_resv_avg)
          /\ Cardinality(ClusterFetches(csv[i].cluster_name)) = 1
    /\ \E i \in 1..Len(csv) : csv[i].service_name # "" /\ ~Bare(csv[i])

---------------------------------------------------------------------------
(* Properties of whole runs *)

\* C17: under every pattern of failures a review run eventually reaches its
\* output step and writes the rows computed so far: the run ends with the CSV
\* written.
C17_RunReachesOutput == <>(pc = "done")

---------------------------------------------------------------------------
(* Properties of scripts/ce_all_accounts.py *)

RowsOfAccount(id, kind) ==
    { i \in 1..Len(csv) :
        /\ csv[i].account_id = id
        /\ "kind" \in DOMAIN csv[i]
        /\ csv[i].kind = kind }

\* C23: scripts/ce_all_accounts.py writes two rows for every linked account,
\* one of kind 'usage' and one of kind 'marketplace', each with the columns
\* account_id, account_name, kind and total_unblended_cost.
C23_TwoRowsPerAccount ==
    (script = "scripts/ce_all_accounts" /\ pc = "done") =>
       /\ \A i \in 1..Len(csv) :
             DOMAIN csv[i] =
                {"account_id", "account_name", "kind", "total_unblended_cost"}
       /\ \A a \in 1..Len(inventory.accounts) :
             /\ Cardinality(RowsOfAccount(inventory.accounts[a].Id, "usage")) = 1
             /\ Cardinality(RowsOfAccount(inventory.accounts[a].Id, "marketplace")) = 1

---------------------------------------------------------------------------
(* Properties of cw_batch_get *)

\* the Values of an Id over the pages 1..n, concatenated
RECURSIVE AllValues(_, _)
AllValues(id, n) ==
    IF n = 0 THEN <<>> ELSE AllValues(id, n - 1) \o inventory[n][id]

\* C24: cw_batch_get returns for each Id the aggregate over all the values of
\* that Id across every page: the aggregate of the concatenated values, and
\* no entry for an Id without values.
C24_AggregatesAcrossPages ==
    (script = "back/ec2_efficiency_metrics" /\ pc = "returned") =>
       \A id \in QueryIds :
          LET vals == AllValues(id, Len(inventory))
          IN  IF vals = <<>> THEN IsNone(rows[1][id])
              ELSE ~IsNone(rows[1][id]) /\ REq(rows[1][id], aggregate(id, vals))

---------------------------------------------------------------------------
(* Properties of collect_profile in the RDS and the ECS review *)

\* the rows one cluster contributes
ClusterRows(region, cl) ==
    IF cl.services = <<>> THEN <<cluster_row(region, cl)>>
    ELSE IF ~cl.describe_ok THEN <<>>
    ELSE service_rows(region, cl, 1, FALSE).rows

\* the resources (RDS: pages, ECS: clusters) of a region handled before its
\* first API error, all of them if there is none
Handled(reg) ==
    IF script = "rds_rightsizing"
    THEN LET bad == {i \in 1..Len(reg.pages) : ~reg.pages[i].ok}
         IN  IF bad = {} THEN Len(reg.pages)
             ELSE (CHOOSE i \in bad : \A j \in bad : i <= j) - 1
    ELSE IF ~reg.list_ok THEN 0
    ELSE LET bad == {i \in 1..Len(reg.clusters) : ~reg.clusters[i].services_ok}
         IN  IF bad = {} THEN Len(reg.clusters)
             ELSE (CHOOSE i \in bad : \A j \in bad : i <= j) - 1

RECURSIVE RegionRows(_, _)
\* the rows of the first n resources of one region, taken on its own
RegionRows(reg, n) ==
    IF n = 0 THEN <<>>
    ELSE RegionRows(reg, n - 1)
         \o (IF script = "rds_rightsizing"
             THEN page_rows(reg.region, reg.pages[n])
             ELSE ClusterRows(reg.region, reg.clusters[n]))

RECURSIVE RowsOfRegions(_)
\* the rows of the first n regions of the run, each taken on its own
RowsOfRegions(n) ==
    IF n = 0 THEN <<>>
    ELSE RowsOfRegions(n - 1) \o RegionRows(inventory[n], Handled(inventory[n]))

\* the region in progress: the resources it has handled so far
InProgress ==
    IF r > Len(inventory) THEN <<>> ELSE RegionRows(cur_region, t - 1)

\* some region of the run was interrupted by an API error
Interrupted(i) ==
    IF script = "rds_rightsizing"
    THEN \E j \in 1..Len(inventory[i].pages) : ~inventory[i].pages[j].ok
    ELSE \/ ~inventory[i].list_ok
         \/ \E j \in 1..Len(inventory[i].clusters) :
               ~inventory[i].clusters[j].services_ok

\* C30: in collect_profile of the RDS and of the ECS review the list of rows
\* is, at every moment, the rows each finished region gives on its own up to
\* its API error, in order, followed by the rows of the region in progress:
\* rows appended before an error stay as they were, and the rows of the
\* regions after a failing region do not depend on it.
C30_ErrorKeepsRowsAndLaterRegions ==
    script \in {"rds_rightsizing", "ecs_rightsizing"} =>
       (IF pc = "done" THEN csv ELSE rows)
          = RowsOfRegions(Min2(r - 1, Len(inventory))) \o InProgress

\* the first region failed after it had given rows, the second gave its rows
C30_Witness ==
    /\ script = "rds_rightsizing" /\ pc = "done"
    /\ Interrupted(1) /\ Handled(inventory[1]) >= 1
    /\ \E i, j \in 1..Len(csv) :
          /\ i < j
          /\ csv[i].region = "us-east-1" /\ csv[j].region = "eu-west-1"

---------------------------------------------------------------------------
(* Properties of chunk_windows *)

ChunkScripts ==
    {"ec2_utilization.chunk_windows", "ec2_utilization.fetch_cpu_points_5m"}

\* C28: for start < end and max_days >= 1 chunk_windows terminates (it appends
\* no more windows than the window has hours, each one moving cur forward) and
\* returns a non-empty list of windows, contiguous and non-overlapping, the
\* first starting at start, the last ending at end, each at most max_days
\* long; with max_days = 5 and Period 300 every request of fetch_cpu_points_5m
\* asks for at most 1440 points.
C28_ChunksTileTheWindow ==
    script \in ChunkScripts =>
       /\ Len(rows) <= args.end - args.start
       /\ \A i \in 1..Len(rows) :
             /\ rows[i][1] < rows[i][2]
             /\ rows[i][2] - rows[i][1] <= 24 * args.max_days
             /\ rows[i][1] = IF i = 1 THEN args.start ELSE rows[i - 1][2]
       /\ pc = "chunking" => t = IF rows = <<>> THEN args.start ELSE Last(rows)[2]
       /\ pc # "chunking" => rows # <<>> /\ Last(rows)[2] = args.end
       /\ \A q \in SeqSet(requests) : q.Period = 300 /\ q.seconds <= 1440 * q.Period

\* fourteen days in chunks of five: 5, 5 and 4 days, all fetched
C28_Witness ==
    /\ script = "ec2_utilization.fetch_cpu_points_5m" /\ pc = "returned"
    /\ args.end - args.start = 336
    /\ Len(rows) = 3 /\ Len(requests) = 3
    /\ requests[1].seconds = 1440 * 300 /\ requests[3].seconds = 96 * 3600

---------------------------------------------------------------------------
(* Properties of call_ce_with_retry *)

AllRateLimited ==
    \A i \in 1..Len(requests) : requests[i].outcome \in RateLimitCodes

\* C20: call_ce_with_retry makes at most max_attempts calls whatever the
\* outcomes are; when it returns, it returns the response of the first call
\* that succeeded, which is the last call made; when every call was
\* rate-limited it raises the rate-limit error of call number max_attempts and
\* calls no more.
C20_RetryIsBounded ==
    /\ Len(requests) <= args.max_attempts
    /\ Len(requests) = t
    /\ \A i \in 1..Len(requests) :
          (i < Len(requests) \/ pc = "call") => requests[i].outcome \in RateLimitCodes
    /\ pc = "returned" =>
          /\ requests[t].outcome = "ok"
          /\ rows = <<CeResult("returned", "ok", t)>>
    /\ pc = "raised" =>
          /\ requests[t].outcome # "ok"
          /\ rows = <<CeResult("raised", requests[t].outcome, t)>>
          /\ AllRateLimited => t = args.max_attempts
    /\ pc \in {"returned", "raised"} => ~ENABLED NextRetry

\* six rate-limited calls under the default, then the error is raised
C20_Witness ==
    /\ pc = "raised" /\ AllRateLimited
    /\ args.max_attempts = 6 /\ Len(requests) = 6

\* C21: call_ce_with_retry never retries an error that is not a rate limit:
\* a call that ended with another error code is the last call, its error is
\* what the caller gets, and no sleep follows it (the sleeps are those of the
\* rate-limited calls before it).
C21_OtherErrorsAreNotRetried ==
    \A i \in 1..Len(requests) :
        requests[i].outcome \in {"AccessDeniedException", "ValidationException"} =>
           /\ i = Len(requests)
           /\ pc = "raised"
           /\ rows = <<CeResult("raised", requests[i].outcome, i)>>
           /\ Len(stderr) = i - 1

\* access denied on the third call, after two rate-limited calls, with
\* attempts to spare
C21_Witness ==
    /\ pc = "raised" /\ args.max_attempts = 6 /\ Len(requests) = 3
    /\ requests[1].outcome = "Throttling"
    /\ requests[2].outcome = "TooManyRequestsException"
    /\ requests[3].outcome = "AccessDeniedException"

\* C29: the delay before retry k is min(2^(k-1), 8) seconds; a sleep happens
\* only between a rate-limited call and the next call: while the loop runs
\* there is one sleep for each call made, and once it has returned or raised
\* the last call has none.
C29_BackoffDoublesToEight ==
    /\ \A k \in 1..Len(stderr) :
          /\ stderr[k] = [sleep |-> Min2(Pow2(k - 1), 8)]
          /\ requests[k].outcome \in
                {"Throttling", "ThrottlingException", "TooManyRequestsException"}
    /\ Len(stderr) = IF pc = "call" THEN Len(requests) ELSE Len(requests) - 1

\* the default six attempts, all used: the delays were 1, 2, 4, 8, 8
C29_Witness ==
    /\ pc \in {"returned", "raised"} /\ args.max_attempts = 6 /\ Len(requests) = 6
    /\ stderr = <<[sleep |-> 1], [sleep |-> 2], [sleep |-> 4], [sleep |-> 8],
                  [sleep |-> 8]>>

=============================================================================
